---------------------------- MODULE Spec2Model ----------------------------
(***************************************************************************)
(* Verification model of swnumeric's deferred-operation arithmetic engine.  *)
(*                                                                         *)
(* The state machines of the module:                                       *)
(*   SpecSTOP   the Tensor family's scalar-combine descriptors (STOP) and   *)
(*              the operators that consume them (Tensor.hpp)               *)
(*   SpecInt    the same statements on Tensor<int, ...>                     *)
(*   SpecLazy   a descriptor built, its operands overwritten, then consumed *)
(*   SpecSV     the Vector family's scalar descriptors (SVOP)               *)
(*   SpecVV     the Vector/Matrix family's VVOP descriptors and compound    *)
(*              assignments (MatrixVector.hpp)                             *)
(*   SpecAlias  statements whose destination is also an operand             *)
(*   SpecFind   SortableVector::find                                        *)
(*   SpecEdge   the comparison operators of Edge                            *)
(*   Spec       the Tensor container life cycle: construction, alloc, free, *)
(*              copy, move, destruction over an explicit heap (Tensor.hpp)  *)
(*   SpecMatrix the life cycle of Matrix objects                            *)
(*   SpecIO     MatrixMarketIO::writeMatrix and readMatrix                  *)
(* Element values are exact rationals <<numerator, denominator>>.          *)
(***************************************************************************)
EXTENDS Integers, Sequences, FiniteSets, TLC

VARIABLES
    elemT,      \* element-type row of the dispatch matrix
    mem,        \* container name -> element sequence (the raw buffers)
    shp,        \* container name -> realized shape
    pre,        \* mem as it was when the operation was called
    call,       \* the operation performed: [fn, op, destop, scalar, ...]
    err,        \* "none" or the error the operation raised
    oob,        \* TRUE once an element outside a buffer was read or written
    pc,         \* "ready" before the operation, "done" after it
    objs,       \* life-cycle machine: the Tensor objects
    heap,       \* life-cycle machine: the allocator's buffers
    last        \* life-cycle machine: the last operation and its pre-state

vars == <<elemT, mem, shp, pre, call, err, oob, pc, objs, heap, last>>
kvars == <<elemT, mem, shp, pre, call, err, oob, pc>>
lvars == <<objs, heap, last>>

-----------------------------------------------------------------------------
(* Bounds of the model *)

MaxLen == 2

-----------------------------------------------------------------------------
(* Exact arithmetic on the element type T.  A value is <<n, d>> with d > 0  *)
(* in lowest terms; <<0, 0>> is the result of a division by zero (NaN).    *)

RECURSIVE GCD(_, _)
GCD(a, b) == IF b = 0 THEN a ELSE GCD(b, a % b)

Abs(x) == IF x < 0 THEN -x ELSE x

NaN == <<0, 0>>

IsNaN(x) == x[2] = 0

Norm(n, d) ==
    IF d = 0 THEN NaN
    ELSE LET g == GCD(Abs(n), Abs(d))
             s == IF d < 0 THEN -1 ELSE 1
         IN  <<(s * n) \div g, (s * d) \div g>>

Rat(n) == <<n, 1>>

RAdd(a, b) == IF IsNaN(a) \/ IsNaN(b) THEN NaN
              ELSE Norm(a[1] * b[2] + b[1] * a[2], a[2] * b[2])

RNeg(a) == IF IsNaN(a) THEN NaN ELSE <<-a[1], a[2]>>

RSub(a, b) == RAdd(a, RNeg(b))

RMul(a, b) == IF IsNaN(a) \/ IsNaN(b) THEN NaN
              ELSE Norm(a[1] * b[1], a[2] * b[2])

RDiv(a, b) == IF IsNaN(a) \/ IsNaN(b) \/ b[1] = 0 THEN NaN
              ELSE Norm(a[1] * b[2], a[2] * b[1])

\* std::fma(x, y, z): x*y + z with a single rounding, exact here
fma(x, y, z) == RAdd(RMul(x, y), z)

RECURSIVE Product(_)
Product(s) == IF s = <<>> THEN 1 ELSE Head(s) * Product(Tail(s))

-----------------------------------------------------------------------------
(* Kernel state.  A kernel works on k = [m, oob, ill]: m maps each         *)
(* container to its buffer, oob records an access outside a buffer, ill    *)
(* records that the selected kernel cannot be instantiated (the template   *)
(* is missing or its body is ill-formed), in which case nothing runs, exc  *)
(* is the exception thrown inside the kernel, if any; wr counts, for each   *)
(* element of each buffer, the stores the kernel has made to it, and rd the *)
(* loads it has made from it as the operand of a loop; overlap is set when  *)
(* std::memcpy was given one buffer as source and destination, which the    *)
(* language leaves undefined.                                               *)

K0(m) == [m |-> m, oob |-> FALSE, ill |-> FALSE, exc |-> "none",
          overlap |-> FALSE,
          wr |-> [c \in DOMAIN m |-> [i \in 1..Len(m[c]) |-> 0]],
          rd |-> [c \in DOMAIN m |-> [i \in 1..Len(m[c]) |-> 0]]]

\* one more store to each of the first n elements
Stored(w, n) == [i \in 1..Len(w) |-> IF i <= n THEN w[i] + 1 ELSE w[i]]

IllFormed(k) == [k EXCEPT !.ill = TRUE]

\* element i (1-based) of buffer b; a read past the end has no definite value
Get(b, i) == IF i \in 1..Len(b) THEN b[i] ELSE NaN

\* for (i = 0; i < n; i++) a[i] = F(a[i])
Loop1(k, a, n, F(_)) ==
    [k EXCEPT !.m[a] = [i \in 1..Len(@) |-> IF i <= n THEN F(@[i]) ELSE @[i]],
              !.oob = @ \/ n > Len(k.m[a]),
              !.wr[a] = Stored(@, n)]

\* for (i = 0; i < n; i++) a[i] = F(a[i], b[i])
Loop2(k, a, b, n, F(_, _)) ==
    [k EXCEPT !.m[a] = [i \in 1..Len(@) |->
                           IF i <= n THEN F(@[i], Get(k.m[b], i)) ELSE @[i]],
              !.oob = @ \/ n > Len(k.m[a]) \/ n > Len(k.m[b]),
              !.wr[a] = Stored(@, n),
              !.rd[b] = Stored(@, n)]

\* for (i = 0; i < n; i++) a[i] = F(a[i], l[i], r[i])
Loop3(k, a, l, r, n, F(_, _, _)) ==
    [k EXCEPT !.m[a] = [i \in 1..Len(@) |->
                           IF i <= n THEN F(@[i], Get(k.m[l], i), Get(k.m[r], i))
                           ELSE @[i]],
              !.oob = @ \/ n > Len(k.m[a]) \/ n > Len(k.m[l]) \/ n > Len(k.m[r]),
              !.wr[a] = Stored(@, n),
              !.rd[l] = Stored(@, n),
              !.rd[r] = Stored(@, n)]

\* std::memcpy(a, b, n * sizeof(T))
memcpy(k, a, b, n) ==
    [Loop2(k, a, b, n, LAMBDA x, y : y) EXCEPT !.overlap = @ \/ (a = b /\ n > 0)]

\* std::fill_n(a, n, v)
fill_n(k, a, n, v) == Loop1(k, a, n, LAMBDA x : v)

\* cblas_?axpy(n, alpha, x, incx, y, 1): y[i] += alpha * x[i * incx];
\* x names a container, or is a one-element array when incx = 0
axpy(k, n, alpha, x, incx, y) ==
    IF incx = 0
    THEN Loop1(k, y, n, LAMBDA d : RAdd(d, RMul(alpha, x[1])))
    ELSE Loop2(k, y, x, n, LAMBDA d, v : RAdd(d, RMul(alpha, v)))

cblas_daxpy(k, n, alpha, x, incx, y) == axpy(k, n, alpha, x, incx, y)

cblas_saxpy(k, n, alpha, x, incx, y) == axpy(k, n, alpha, x, incx, y)

size(k, a) == Len(k.m[a])

-----------------------------------------------------------------------------
(* Tensor family: the elementwise loops ("NOBLAS ATOMIC OPERATIONS")       *)

\* a[i] = b[i] - a[i]: the operands of a subtraction exchanged
sub_TT_swapped(k, a, b) == Loop2(k, a, b, Len(k.m[a]), LAMBDA x, y : RSub(y, x))

add_TT(k, a, b) == Loop2(k, a, b, size(k, a), LAMBDA x, y : RAdd(x, y))
add_TS(k, a, s) == Loop1(k, a, size(k, a), LAMBDA x : RAdd(x, s))
sub_TT(k, a, b) == Loop2(k, a, b, size(k, a), LAMBDA x, y : RSub(x, y))
sub_TS(k, a, s) == Loop1(k, a, size(k, a), LAMBDA x : RSub(x, s))
mul_TT(k, a, b) == Loop2(k, a, b, size(k, a), LAMBDA x, y : RMul(x, y))
mul_TS(k, a, s) == Loop1(k, a, size(k, a), LAMBDA x : RMul(x, s))
div_TT(k, a, b) == Loop2(k, a, b, size(k, a), LAMBDA x, y : RDiv(x, y))
div_TS(k, a, s) == Loop1(k, a, size(k, a), LAMBDA x : RDiv(x, s))

\* Tensor::setConstant
setConstant(k, a, v) == fill_n(k, a, size(k, a), v)

\* Tensor::operator=(const Tensor&) on an allocated destination whose shape
\* check has passed: memcpy(ptr(), other.ptr(), sizeof(T) * other.size())
assign_TT(k, a, b) == memcpy(k, a, b, size(k, b))

SrcTags == {"Add", "Sub", "SubLeft", "Mul", "Div", "DivLeft"}
VVTags == {"Add", "Sub", "Mul", "Div"}
DestTags == {"Add", "Sub", "Mul", "Div", "Assign"}
CompoundTags == {"Add", "Sub", "Mul", "Div"}
ElemTypes == {"generic", "double", "float"}

One == Rat(1)
MinusOne == Rat(-1)

-----------------------------------------------------------------------------
(* impl::STOPImpl<T, op, destop>::apply(dest, exp), generic row.            *)
(* exp = [vec |-> container, scalar |-> value, op |-> tag].  The primary    *)
(* template is only declared, and no generic specialization has destop =    *)
(* Assign, so that column cannot be instantiated.                           *)

STOPImpl_T(op, destop, k, dest, exp) ==
    LET v == exp.vec
        s == exp.scalar
        n == size(k, v)
    IN
    CASE destop = "Add" ->
          (CASE op = "Add"     -> add_TT(add_TS(k, dest, s), dest, v)
             [] op = "Sub"     -> sub_TS(add_TT(k, dest, v), dest, s)
             [] op = "SubLeft" -> add_TS(sub_TT(k, dest, v), dest, s)
             [] op = "Mul"     -> Loop2(k, dest, v, n, LAMBDA d, x : fma(s, x, d))
             [] op = "Div"     -> LET sc == RDiv(One, s)
                                  IN  Loop2(k, dest, v, n, LAMBDA d, x : fma(sc, x, d))
             [] op = "DivLeft" -> Loop2(k, dest, v, n,
                                        LAMBDA d, x : fma(s, RDiv(One, x), d)))
      [] destop = "Sub" ->
          (CASE op = "Add"     -> sub_TT(sub_TS(k, dest, s), dest, v)
             [] op = "Sub"     -> add_TS(sub_TT(k, dest, v), dest, s)
             [] op = "SubLeft" -> sub_TS(add_TT(k, dest, v), dest, s)
             [] op = "Mul"     -> Loop2(k, dest, v, n, LAMBDA d, x : fma(RNeg(s), x, d))
             [] op = "Div"     -> LET sc == RDiv(MinusOne, s)
                                  IN  Loop2(k, dest, v, n, LAMBDA d, x : fma(sc, x, d))
             [] op = "DivLeft" -> Loop2(k, dest, v, n,
                                        LAMBDA d, x : fma(RNeg(s), RDiv(One, x), d)))
      [] destop = "Mul" ->
          (CASE op = "Add"     -> Loop2(k, dest, v, n,
                                        LAMBDA d, x : fma(d, x, RMul(d, s)))
             [] op = "Sub"     -> Loop2(k, dest, v, n,
                                        LAMBDA d, x : fma(d, x, RMul(RNeg(d), s)))
             [] op = "SubLeft" -> Loop2(k, dest, v, n,
                                        LAMBDA d, x : fma(d, RNeg(x), RMul(d, s)))
             [] op = "Mul"     -> mul_TS(mul_TT(k, dest, v), dest, s)
             [] op = "Div"     -> mul_TT(div_TS(k, dest, s), dest, v)
             [] op = "DivLeft" -> mul_TS(div_TT(k, dest, v), dest, s))
      [] destop = "Div" ->
          (CASE op = "Add"     -> Loop2(k, dest, v, n, LAMBDA d, x : RDiv(d, RAdd(x, s)))
             [] op = "Sub"     -> Loop2(k, dest, v, n, LAMBDA d, x : RDiv(d, RSub(x, s)))
             [] op = "SubLeft" -> Loop2(k, dest, v, n, LAMBDA d, x : RDiv(d, RSub(s, x)))
             [] op = "Mul"     -> div_TT(div_TS(k, dest, s), dest, v)
             [] op = "Div"     -> div_TT(mul_TS(k, dest, s), dest, v)
             [] op = "DivLeft" -> div_TS(mul_TT(k, dest, v), dest, s))
      [] destop = "Assign" -> IllFormed(k)

-----------------------------------------------------------------------------
(* impl::STOPImpl<double, op, destop>::apply: the double row.  Add/Sub/      *)
(* Assign destinations with an Add/Sub/SubLeft source go through            *)
(* cblas_daxpy, the scalar as a one-element array x with stride 0.          *)

STOPImpl_double(op, destop, k, dest, exp) ==
    LET v == exp.vec
        s == exp.scalar
        n == size(k, v)
        x == <<s>>
        nx == <<RNeg(s)>>
    IN
    CASE destop = "Add" ->
          (CASE op = "Add"     -> cblas_daxpy(cblas_daxpy(k, n, One, v, 1, dest), n, One, x, 0, dest)
             [] op = "Sub"     -> cblas_daxpy(cblas_daxpy(k, size(k, dest), One, v, 1, dest),
                                           n, One, nx, 0, dest)
             [] op = "SubLeft" -> cblas_daxpy(cblas_daxpy(k, size(k, dest), MinusOne, v, 1, dest),
                                           n, One, x, 0, dest)
             [] op = "Mul"     -> Loop2(k, dest, v, n, LAMBDA d, y : fma(s, y, d))
             [] op = "Div"     -> Loop2(k, dest, v, n, LAMBDA d, y : fma(RDiv(One, s), y, d))
             [] op = "DivLeft" -> Loop2(k, dest, v, n,
                                        LAMBDA d, y : fma(s, RDiv(One, y), d)))
      [] destop = "Sub" ->
          (CASE op = "Add"     -> cblas_daxpy(cblas_daxpy(k, n, MinusOne, v, 1, dest),
                                           n, One, nx, 0, dest)
             [] op = "Sub"     -> cblas_daxpy(cblas_daxpy(k, n, MinusOne, v, 1, dest),
                                           n, One, x, 0, dest)
             [] op = "SubLeft" -> cblas_daxpy(cblas_daxpy(k, n, One, v, 1, dest),
                                           n, One, nx, 0, dest)
             [] op = "Mul"     -> Loop2(k, dest, v, n, LAMBDA d, y : fma(RNeg(s), y, d))
             [] op = "Div"     -> Loop2(k, dest, v, n,
                                        LAMBDA d, y : fma(RDiv(MinusOne, s), y, d))
             [] op = "DivLeft" -> Loop2(k, dest, v, n,
                                        LAMBDA d, y : fma(RNeg(s), RDiv(One, y), d)))
      [] destop = "Mul" ->
          (CASE op = "Add"     -> Loop2(k, dest, v, n,
                                        LAMBDA d, y : fma(d, y, RMul(d, s)))
             [] op = "Sub"     -> Loop2(k, dest, v, n,
                                        LAMBDA d, y : fma(d, y, RMul(RNeg(d), s)))
             [] op = "SubLeft" -> Loop2(k, dest, v, n,
                                        LAMBDA d, y : fma(d, RNeg(y), RMul(d, s)))
             [] op = "Mul"     -> mul_TT(mul_TS(k, dest, s), dest, v)
             [] op = "Div"     -> mul_TT(div_TS(k, dest, s), dest, v)
             [] op = "DivLeft" -> mul_TS(div_TT(k, dest, v), dest, s))
      [] destop = "Div" ->
          (CASE op = "Add"     -> Loop2(k, dest, v, n, LAMBDA d, y : RDiv(d, RAdd(y, s)))
             [] op = "Sub"     -> Loop2(k, dest, v, n, LAMBDA d, y : RDiv(d, RSub(y, s)))
             [] op = "SubLeft" -> Loop2(k, dest, v, n, LAMBDA d, y : RDiv(d, RSub(s, y)))
             [] op = "Mul"     -> div_TT(div_TS(k, dest, s), dest, v)
             [] op = "Div"     -> div_TT(mul_TS(k, dest, s), dest, v)
             [] op = "DivLeft" -> div_TS(mul_TT(k, dest, v), dest, s))
      [] destop = "Assign" ->
          (CASE op = "Add"     -> cblas_daxpy(assign_TT(k, dest, v), n, One, x, 0, dest)
             [] op = "Sub"     -> cblas_daxpy(assign_TT(k, dest, v), n, One, nx, 0, dest)
             [] op = "SubLeft" -> cblas_daxpy(mul_TS(assign_TT(k, dest, v), dest, MinusOne),
                                              n, One, x, 0, dest)
             [] op = "Mul"     -> mul_TS(assign_TT(k, dest, v), dest, s)
             [] op = "Div"     -> div_TS(assign_TT(k, dest, v), dest, s)
             [] op = "DivLeft" -> div_TT(setConstant(k, dest, s), dest, v))

(* impl::STOPImpl<float, op, destop>::apply: the float row, the double row  *)
(* over cblas_saxpy.  In <float, SubLeft, Assign> the call mul(dest, -1.0)  *)
(* deduces T = float from dest and T = double from the literal, so no mul   *)
(* overload is viable and the kernel cannot be instantiated.                *)

STOPImpl_float(op, destop, k, dest, exp) ==
    LET v == exp.vec
        s == exp.scalar
        n == size(k, v)
        x == <<s>>
        nx == <<RNeg(s)>>
    IN
    CASE destop = "Add" ->
          (CASE op = "Add"     -> cblas_saxpy(cblas_saxpy(k, n, One, v, 1, dest), n, One, x, 0, dest)
             [] op = "Sub"     -> cblas_saxpy(cblas_saxpy(k, size(k, dest), One, v, 1, dest),
                                           n, One, nx, 0, dest)
             [] op = "SubLeft" -> cblas_saxpy(cblas_saxpy(k, size(k, dest), MinusOne, v, 1, dest),
                                           n, One, x, 0, dest)
             [] op = "Mul"     -> Loop2(k, dest, v, n, LAMBDA d, y : fma(s, y, d))
             [] op = "Div"     -> Loop2(k, dest, v, n, LAMBDA d, y : fma(RDiv(One, s), y, d))
             [] op = "DivLeft" -> Loop2(k, dest, v, n,
                                        LAMBDA d, y : fma(s, RDiv(One, y), d)))
      [] destop = "Sub" ->
          (CASE op = "Add"     -> cblas_saxpy(cblas_saxpy(k, n, MinusOne, v, 1, dest),
                                           n, One, nx, 0, dest)
             [] op = "Sub"     -> cblas_saxpy(cblas_saxpy(k, n, MinusOne, v, 1, dest),
                                           n, One, x, 0, dest)
             [] op = "SubLeft" -> cblas_saxpy(cblas_saxpy(k, n, One, v, 1, dest),
                                           n, One, nx, 0, dest)
             [] op = "Mul"     -> Loop2(k, dest, v, n, LAMBDA d, y : fma(RNeg(s), y, d))
             [] op = "Div"     -> Loop2(k, dest, v, n,
                                        LAMBDA d, y : fma(RDiv(MinusOne, s), y, d))
             [] op = "DivLeft" -> Loop2(k, dest, v, n,
                                        LAMBDA d, y : fma(RNeg(s), RDiv(One, y), d)))
      [] destop = "Mul" ->
          (CASE op = "Add"     -> Loop2(k, dest, v, n,
                                        LAMBDA d, y : fma(d, y, RMul(d, s)))
             [] op = "Sub"     -> Loop2(k, dest, v, n,
                                        LAMBDA d, y : fma(d, y, RMul(RNeg(d), s)))
             [] op = "SubLeft" -> Loop2(k, dest, v, n,
                                        LAMBDA d, y : fma(d, RNeg(y), RMul(d, s)))
             [] op = "Mul"     -> mul_TT(mul_TS(k, dest, s), dest, v)
             [] op = "Div"     -> mul_TT(div_TS(k, dest, s), dest, v)
             [] op = "DivLeft" -> mul_TS(div_TT(k, dest, v), dest, s))
      [] destop = "Div" ->
          (CASE op = "Add"     -> Loop2(k, dest, v, n, LAMBDA d, y : RDiv(d, RAdd(y, s)))
             [] op = "Sub"     -> Loop2(k, dest, v, n, LAMBDA d, y : RDiv(d, RSub(y, s)))
             [] op = "SubLeft" -> Loop2(k, dest, v, n, LAMBDA d, y : RDiv(d, RSub(s, y)))
             [] op = "Mul"     -> div_TT(div_TS(k, dest, s), dest, v)
             [] op = "Div"     -> div_TT(mul_TS(k, dest, s), dest, v)
             [] op = "DivLeft" -> div_TS(mul_TT(k, dest, v), dest, s))
      [] destop = "Assign" ->
          (CASE op = "Add"     -> cblas_saxpy(assign_TT(k, dest, v), n, One, x, 0, dest)
             [] op = "Sub"     -> cblas_saxpy(assign_TT(k, dest, v), n, One, nx, 0, dest)
             [] op = "SubLeft" -> IllFormed(k)
             [] op = "Mul"     -> mul_TS(assign_TT(k, dest, v), dest, s)
             [] op = "Div"     -> div_TS(assign_TT(k, dest, v), dest, s)
             [] op = "DivLeft" -> div_TT(setConstant(k, dest, s), dest, v))

-----------------------------------------------------------------------------
(* The generic row instantiated with T = int.  Elements are <<n, 1>>.  The  *)
(* literals 1.0 and -1.0 make their expression a double; std::fma promotes  *)
(* integer arguments to double and returns a double; a store to a T         *)
(* converts by truncation toward zero.  a / b on two T is the truncating    *)
(* integer division.  A division by zero, and the conversion of the         *)
(* resulting non-finite double, are undefined: the value is NaN here and    *)
(* the statement that produced it has no defined outcome.                   *)

\* static_cast<int>(x) of a double x
Trunc(x) ==
    IF IsNaN(x) THEN NaN
    ELSE Rat((IF x[1] < 0 THEN -1 ELSE 1) * (Abs(x[1]) \div x[2]))

\* a / b on int
IDiv(a, b) == Trunc(RDiv(a, b))

div_TT_int(k, a, b) == Loop2(k, a, b, size(k, a), LAMBDA x, y : IDiv(x, y))
div_TS_int(k, a, s) == Loop1(k, a, size(k, a), LAMBDA x : IDiv(x, s))

STOPImpl_int(op, destop, k, dest, exp) ==
    LET v == exp.vec
        s == exp.scalar
        n == size(k, v)
    IN
    CASE destop = "Add" ->
          (CASE op = "Add"     -> add_TT(add_TS(k, dest, s), dest, v)
             [] op = "Sub"     -> sub_TS(add_TT(k, dest, v), dest, s)
             [] op = "SubLeft" -> add_TS(sub_TT(k, dest, v), dest, s)
             [] op = "Mul"     -> Loop2(k, dest, v, n,
                                        LAMBDA d, x : Trunc(fma(s, x, d)))
             [] op = "Div"     -> LET sc == Trunc(RDiv(One, s))
                                  IN  Loop2(k, dest, v, n,
                                            LAMBDA d, x : Trunc(fma(sc, x, d)))
             [] op = "DivLeft" -> Loop2(k, dest, v, n,
                                        LAMBDA d, x : Trunc(fma(s, RDiv(One, x), d))))
      [] destop = "Sub" ->
          (CASE op = "Add"     -> sub_TT(sub_TS(k, dest, s), dest, v)
             [] op = "Sub"     -> add_TS(sub_TT(k, dest, v), dest, s)
             [] op = "SubLeft" -> sub_TS(add_TT(k, dest, v), dest, s)
             [] op = "Mul"     -> Loop2(k, dest, v, n,
                                        LAMBDA d, x : Trunc(fma(RNeg(s), x, d)))
             [] op = "Div"     -> LET sc == Trunc(RDiv(MinusOne, s))
                                  IN  Loop2(k, dest, v, n,
                                            LAMBDA d, x : Trunc(fma(sc, x, d)))
             [] op = "DivLeft" -> Loop2(k, dest, v, n,
                                        LAMBDA d, x :
                                            Trunc(fma(RNeg(s), RDiv(One, x), d))))
      [] destop = "Mul" ->
          (CASE op = "Add"     -> Loop2(k, dest, v, n,
                                        LAMBDA d, x : Trunc(fma(d, x, RMul(d, s))))
             [] op = "Sub"     -> Loop2(k, dest, v, n,
                                        LAMBDA d, x :
                                            Trunc(fma(d, x, RMul(RNeg(d), s))))
             [] op = "SubLeft" -> Loop2(k, dest, v, n,
                                        LAMBDA d, x :
                                            Trunc(fma(d, RNeg(x), RMul(d, s))))
             [] op = "Mul"     -> mul_TS(mul_TT(k, dest, v), dest, s)
             [] op = "Div"     -> mul_TT(div_TS_int(k, dest, s), dest, v)
             [] op = "DivLeft" -> mul_TS(div_TT_int(k, dest, v), dest, s))
      [] destop = "Div" ->
          (CASE op = "Add"     -> Loop2(k, dest, v, n,
                                        LAMBDA d, x : IDiv(d, RAdd(x, s)))
             [] op = "Sub"     -> Loop2(k, dest, v, n,
                                        LAMBDA d, x : IDiv(d, RSub(x, s)))
             [] op = "SubLeft" -> Loop2(k, dest, v, n,
                                        LAMBDA d, x : IDiv(d, RSub(s, x)))
             [] op = "Mul"     -> div_TT_int(div_TS_int(k, dest, s), dest, v)
             [] op = "Div"     -> div_TT_int(mul_TS(k, dest, s), dest, v)
             [] op = "DivLeft" -> div_TS_int(mul_TT(k, dest, v), dest, s))
      [] destop = "Assign" -> IllFormed(k)

\* the dispatch matrix: (source tag, destination tag, element type) -> kernel
STOPImpl(T, op, destop, k, dest, exp) ==
    CASE T = "double" -> STOPImpl_double(op, destop, k, dest, exp)
      [] T = "int"    -> STOPImpl_int(op, destop, k, dest, exp)
      [] T = "float"  -> STOPImpl_float(op, destop, k, dest, exp)
      [] OTHER        -> STOPImpl_T(op, destop, k, dest, exp)

-----------------------------------------------------------------------------
(* Tensor family: descriptor construction and the consuming operators       *)

\* a comparison of element counts only
checkShape_sizeOnly(a1, a2) ==
    IF Product(a1) # Product(a2) THEN "SIZE MISMATCH ERROR" ELSE "none"

\* checkShape(a1, a2): "none" when the extents agree, else the error thrown
checkShape(a1, a2) ==
    IF Len(a1) # Len(a2) THEN "DIMENSION ERROR"
    ELSE IF \E i \in 1..Len(a1) : a1[i] # a2[i] THEN "SIZE MISMATCH ERROR"
    ELSE "none"

\* operator+ - * / (Tensor, scalar) and (scalar, Tensor): build a STOP; the
\* operand is held by reference (its name), the scalar by value
STOP(a, scalar, op) == [vec |-> a, scalar |-> scalar, op |-> op]

\* Tensor::operator+=, -=, *=, /=, = (const impl::STOP&): the outcome of the
\* call on buffers m with shapes sh, as [m, oob, err]
TensorConsumeSTOP(T, destop, m, sh, dest, exp) ==
    LET e == checkShape(sh[dest], sh[exp.vec]) IN
    IF e # "none"
    THEN [m |-> m, oob |-> FALSE, err |-> e, wr |-> K0(m).wr[dest],
          overlap |-> FALSE]
    ELSE LET k == STOPImpl(T, exp.op, destop, K0(m), dest, exp)
         IN  [m |-> k.m, oob |-> k.oob,
              err |-> IF k.ill THEN "ill-formed" ELSE "none",
              wr |-> k.wr[dest], overlap |-> k.overlap]

\* Tensor::operator+=(const Tensor&): checkShape, then axpy or add
TensorPlusEqTensor(T, m, sh, dest, a) ==
    LET e == checkShape(sh[dest], sh[a])
        n == Len(m[dest])
        k == CASE T = "double" -> cblas_daxpy(K0(m), n, One, a, 1, dest)
               [] T = "float"  -> cblas_saxpy(K0(m), n, One, a, 1, dest)
               [] OTHER        -> add_TT(K0(m), dest, a)
    IN  IF e # "none" THEN [m |-> m, oob |-> FALSE, err |-> e]
        ELSE [m |-> k.m, oob |-> k.oob, err |-> "none"]

\* the result of a kernel run behind a shape check that returned e
Checked(e, m, k) ==
    IF e # "none" THEN [m |-> m, oob |-> FALSE, err |-> e]
    ELSE [m |-> k.m, oob |-> k.oob, err |-> "none"]

\* Tensor::operator+=(const T&)
TensorPlusEqScalar(T, m, dest, a) ==
    LET n == Len(m[dest])
    IN  Checked("none", m,
                CASE T = "double" -> cblas_daxpy(K0(m), n, One, <<a>>, 0, dest)
                  [] T = "float"  -> cblas_saxpy(K0(m), n, One, <<a>>, 0, dest)
                  [] OTHER        -> add_TS(K0(m), dest, a))

\* Tensor::operator-=(const Tensor&): the generic branch calls add
TensorMinusEqTensor(T, m, sh, dest, a) ==
    LET n == Len(m[dest])
    IN  Checked(checkShape(sh[dest], sh[a]), m,
                CASE T = "double" -> cblas_daxpy(K0(m), n, MinusOne, a, 1, dest)
                  [] T = "float"  -> cblas_saxpy(K0(m), n, MinusOne, a, 1, dest)
                  [] OTHER        -> add_TT(K0(m), dest, a))

\* Tensor::operator-=(const T&): the generic branch calls add
TensorMinusEqScalar(T, m, dest, a) ==
    LET n == Len(m[dest])
    IN  Checked("none", m,
                CASE T = "double" -> cblas_daxpy(K0(m), n, MinusOne, <<a>>, 0, dest)
                  [] T = "float"  -> cblas_saxpy(K0(m), n, MinusOne, <<a>>, 0, dest)
                  [] OTHER        -> add_TS(K0(m), dest, a))

\* Tensor::operator*=(const Tensor&)
TensorTimesEqTensor(T, m, sh, dest, a) ==
    Checked(checkShape(sh[dest], sh[a]), m, mul_TT(K0(m), dest, a))

\* Tensor::operator*=(const T&)
TensorTimesEqScalar(T, m, dest, a) == Checked("none", m, mul_TS(K0(m), dest, a))

\* Tensor::operator/=(const Tensor&)
TensorDivEqTensor(T, m, sh, dest, a) ==
    Checked(checkShape(sh[dest], sh[a]), m, div_TT(K0(m), dest, a))

\* Tensor::operator/=(const T&)
TensorDivEqScalar(T, m, dest, a) == Checked("none", m, div_TS(K0(m), dest, a))

-----------------------------------------------------------------------------
(* SpecSTOP: one statement  D DESTOP (V OP s)  on Tensor operands           *)

\* element values the operands are drawn from
DestVals == {Rat(3), Rat(-2)}
VecVals == {Rat(2), Rat(-1), Rat(0)}
ScalarVals == {Rat(2), Rat(-3), <<1, 2>>}

\* shapes of rank 1 and 2 holding at most MaxLen elements
Shapes == {sh \in [1..1 -> 1..MaxLen] \cup [1..2 -> 1..MaxLen] :
             Product(sh) <= MaxLen}

Buffers(vals, sh) == [1..Product(sh) -> vals]

InitSTOP ==
    /\ elemT \in ElemTypes
    /\ shp \in [{"D", "V"} -> Shapes]
    /\ \E d \in Buffers(DestVals, shp["D"]), v \in Buffers(VecVals, shp["V"]) :
          mem = [c \in {"D", "V"} |-> IF c = "D" THEN d ELSE v]
    /\ pre = mem
    /\ call = [fn |-> "none"]
    /\ err = "none"
    /\ oob = FALSE
    /\ pc = "ready"
    /\ objs = <<>>
    /\ heap = <<>>
    /\ last = <<>>

\* the statement  D DESTOP (V OP s): the descriptor is built, then consumed
StopStatement(destop) ==
    /\ pc = "ready"
    /\ \E op \in SrcTags, s \in ScalarVals :
          LET exp == STOP("V", s, op)
              r == TensorConsumeSTOP(elemT, destop, mem, shp, "D", exp)
          IN  /\ mem' = r.m
              /\ oob' = r.oob
              /\ err' = r.err
              /\ call' = [fn |-> "STOP", destop |-> destop, op |-> op,
                          scalar |-> s, stores |-> r.wr]
    /\ pre' = mem
    /\ pc' = "done"
    /\ UNCHANGED <<elemT, shp, lvars>>

\* Tensor::operator+=(const impl::STOP&)
TensorPlusEqSTOP == StopStatement("Add")
\* Tensor::operator-=(const impl::STOP&)
TensorMinusEqSTOP == StopStatement("Sub")
\* Tensor::operator*=(const impl::STOP&)
TensorTimesEqSTOP == StopStatement("Mul")
\* Tensor::operator/=(const impl::STOP&)
TensorDivEqSTOP == StopStatement("Div")
\* Tensor::operator=(const impl::STOP&)
TensorAssignSTOP == StopStatement("Assign")

\* the result r of a compound assignment on a plain operand becomes the
\* next state
CompoundDone(destop, operand, s, r) ==
    /\ pc = "ready"
    /\ mem' = r.m
    /\ oob' = r.oob
    /\ err' = r.err
    /\ call' = [fn |-> "compound", destop |-> destop, operand |-> operand,
                scalar |-> s]
    /\ pre' = mem
    /\ pc' = "done"
    /\ UNCHANGED <<elemT, shp, lvars>>

\* D += V, D -= V, D *= V, D /= V
TensorPlusEq ==
    CompoundDone("Add", "tensor", One, TensorPlusEqTensor(elemT, mem, shp, "D", "V"))
TensorMinusEq ==
    CompoundDone("Sub", "tensor", One, TensorMinusEqTensor(elemT, mem, shp, "D", "V"))
TensorTimesEq ==
    CompoundDone("Mul", "tensor", One, TensorTimesEqTensor(elemT, mem, shp, "D", "V"))
TensorDivEq ==
    CompoundDone("Div", "tensor", One, TensorDivEqTensor(elemT, mem, shp, "D", "V"))

\* D += s, D -= s, D *= s, D /= s
TensorPlusEqT ==
    \E s \in ScalarVals :
       CompoundDone("Add", "scalar", s, TensorPlusEqScalar(elemT, mem, "D", s))
TensorMinusEqT ==
    \E s \in ScalarVals :
       CompoundDone("Sub", "scalar", s, TensorMinusEqScalar(elemT, mem, "D", s))
TensorTimesEqT ==
    \E s \in ScalarVals :
       CompoundDone("Mul", "scalar", s, TensorTimesEqScalar(elemT, mem, "D", s))
TensorDivEqT ==
    \E s \in ScalarVals :
       CompoundDone("Div", "scalar", s, TensorDivEqScalar(elemT, mem, "D", s))

NextSTOP ==
    \/ TensorPlusEqSTOP
    \/ TensorMinusEqSTOP
    \/ TensorTimesEqSTOP
    \/ TensorDivEqSTOP
    \/ TensorAssignSTOP
    \/ TensorPlusEq
    \/ TensorMinusEq
    \/ TensorTimesEq
    \/ TensorDivEq
    \/ TensorPlusEqT
    \/ TensorMinusEqT
    \/ TensorTimesEqT
    \/ TensorDivEqT

SpecSTOP == InitSTOP /\ [][NextSTOP]_vars

-----------------------------------------------------------------------------
(* The statement D OP= (V SRC s) on Tensor<int, ...>.  D, V and s hold      *)
(* integers.  A statement that divides by zero is undefined: it may leave   *)
(* any values in D, and the run has no meaning afterwards (pc = "ub").      *)

IntScalarVals == {Rat(2), Rat(-3), Rat(1)}

InitInt ==
    /\ elemT = "int"
    /\ shp \in [{"D", "V"} -> Shapes]
    /\ \E d \in Buffers(DestVals, shp["D"]), v \in Buffers(VecVals, shp["V"]) :
          mem = [c \in {"D", "V"} |-> IF c = "D" THEN d ELSE v]
    /\ pre = mem
    /\ call = [fn |-> "none"]
    /\ err = "none"
    /\ oob = FALSE
    /\ pc = "ready"
    /\ objs = <<>>
    /\ heap = <<>>
    /\ last = <<>>

IntStatement(destop) ==
    /\ pc = "ready"
    /\ \E op \in SrcTags, s \in IntScalarVals :
          LET exp == STOP("V", s, op)
              r == TensorConsumeSTOP(elemT, destop, mem, shp, "D", exp)
              undefined == \E i \in 1..Len(r.m["D"]) : IsNaN(r.m["D"][i])
          IN  /\ IF undefined
                 THEN /\ \E g \in Buffers(DestVals, shp["D"]) :
                            mem' = [mem EXCEPT !["D"] = g]
                      /\ pc' = "ub"
                 ELSE /\ mem' = r.m
                      /\ pc' = "done"
              /\ oob' = r.oob
              /\ err' = r.err
              /\ call' = [fn |-> "STOP", destop |-> destop, op |-> op,
                          scalar |-> s, stores |-> r.wr]
    /\ pre' = mem
    /\ UNCHANGED <<elemT, shp, lvars>>

\* Tensor<int>::operator+=, -=, *=, /=, = (const impl::STOP&)
IntPlusEqSTOP == IntStatement("Add")
IntMinusEqSTOP == IntStatement("Sub")
IntTimesEqSTOP == IntStatement("Mul")
IntDivEqSTOP == IntStatement("Div")
IntAssignSTOP == IntStatement("Assign")

NextInt ==
    \/ IntPlusEqSTOP
    \/ IntMinusEqSTOP
    \/ IntTimesEqSTOP
    \/ IntDivEqSTOP
    \/ IntAssignSTOP

SpecInt == InitInt /\ [][NextInt]_vars

-----------------------------------------------------------------------------
(* SpecLazy: a descriptor is built from the operand V and the caller's      *)
(* scalar variable s, the caller then stores to an element of V and to s,   *)
(* and the descriptor is consumed into D.  D and V have one shape and start *)
(* out filled with one value each (setConstant).  s is a one-element buffer. *)

\* the scalar a descriptor has the kernel use when it is consumed with
\* memory m: the caller's variable as it is then
STOPScalar_live(exp, m) == m["s"][1]

\* the scalar a descriptor has the kernel use: the member  const T scalar,
\* copied when the descriptor was built
STOPScalar(exp, m) == exp.scalar

Uniform(sh, v) == [i \in 1..Product(sh) |-> v]

InitLazy ==
    /\ elemT \in ElemTypes
    /\ \E sh \in Shapes :
          shp = [c \in {"D", "V", "s"} |-> IF c = "s" THEN <<1>> ELSE sh]
    /\ \E d \in DestVals, v \in VecVals, sc \in ScalarVals :
          mem = [c \in {"D", "V", "s"} |->
                   CASE c = "D" -> Uniform(shp["D"], d)
                     [] c = "V" -> Uniform(shp["V"], v)
                     [] OTHER   -> <<sc>>]
    /\ pre = mem
    /\ call = [fn |-> "none"]
    /\ err = "none"
    /\ oob = FALSE
    /\ pc = "ready"
    /\ objs = <<>>
    /\ heap = <<>>
    /\ last = <<>>

\* auto expr = V OP s (or s OP V): the aggregate is initialised, nothing else
BuildSTOP ==
    /\ pc = "ready"
    /\ \E op \in SrcTags :
          call' = [fn |-> "build", exp |-> STOP("V", mem["s"][1], op),
                   built |-> mem]
    /\ pre' = mem
    /\ pc' = "built"
    /\ UNCHANGED <<elemT, mem, shp, err, oob, lvars>>

\* V[i] = x; s = y;  between the build and the consumption
Overwrite ==
    /\ pc = "built"
    /\ \E i \in 1..Len(mem["V"]), x \in VecVals, y \in ScalarVals :
          mem' = [mem EXCEPT !["V"][i] = x, !["s"] = <<y>>]
    /\ pc' = "written"
    /\ UNCHANGED <<elemT, shp, pre, call, err, oob, lvars>>

\* D DESTOP expr
ConsumeSTOP(destop) ==
    /\ pc \in {"built", "written"}
    /\ LET exp == STOP(call.exp.vec, STOPScalar(call.exp, mem), call.exp.op)
           r == TensorConsumeSTOP(elemT, destop, mem, shp, "D", exp)
       IN  /\ mem' = r.m
           /\ oob' = r.oob
           /\ err' = r.err
    /\ call' = [fn |-> "consume", destop |-> destop, exp |-> call.exp,
                built |-> call.built]
    /\ pre' = mem
    /\ pc' = "done"
    /\ UNCHANGED <<elemT, shp, lvars>>

\* Tensor::operator+=, -=, *=, /=, = (const impl::STOP&) on a stored descriptor
PlusEqExpr == ConsumeSTOP("Add")
MinusEqExpr == ConsumeSTOP("Sub")
TimesEqExpr == ConsumeSTOP("Mul")
DivEqExpr == ConsumeSTOP("Div")
AssignExpr == ConsumeSTOP("Assign")

NextLazy ==
    \/ BuildSTOP
    \/ Overwrite
    \/ PlusEqExpr
    \/ MinusEqExpr
    \/ TimesEqExpr
    \/ DivEqExpr
    \/ AssignExpr

SpecLazy == InitLazy /\ [][NextLazy]_vars

-----------------------------------------------------------------------------
(* Vector/Matrix family (MatrixVector.hpp).  Its elementwise loops add,     *)
(* sub, mul, div have the bodies of the Tensor family's and are the same    *)
(* operators here.  exp = [lhs |-> container, rhs |-> container, op |-> tag] *)

LINALGSIZEERROR == "ERROR IN SIZE CHECK"

\* copyTo(a, b): std::memcpy(a(), b(), a.size() * sizeof(T))
copyTo(k, a, b) == memcpy(k, a, b, size(k, a))

\* Vector::operator=(const Vector&): throws unless the sizes agree
Vector_assign(k, a, b) ==
    IF size(k, a) # size(k, b)
    THEN [k EXCEPT !.exc = "SIZE MISMATCH IN ASSIGNMENT"]
    ELSE memcpy(k, a, b, size(k, a))

\* impl::VVOPImpl<T, sa, sb, op, destop>::apply, generic row.  In <Sub, Mul>
\* the third argument of std::fma is -dest[i] * exp.rhs, a descriptor and not
\* a T, so that kernel cannot be instantiated.
VVOPImpl_T(op, destop, k, dest, exp) ==
    LET l == exp.lhs
        r == exp.rhs
        n == size(k, l)
    IN
    CASE destop = "Add" ->
          (CASE op = "Add" -> add_TT(add_TT(k, dest, l), dest, r)
             [] op = "Sub" -> sub_TT(add_TT(k, dest, l), dest, r)
             [] op = "Mul" -> Loop3(k, dest, l, r, n, LAMBDA d, x, y : fma(x, y, d))
             [] op = "Div" -> Loop3(k, dest, l, r, n,
                                    LAMBDA d, x, y : fma(RDiv(One, y), x, d)))
      [] destop = "Sub" ->
          (CASE op = "Add" -> sub_TT(sub_TT(k, dest, l), dest, r)
             [] op = "Sub" -> add_TT(sub_TT(k, dest, l), dest, r)
             [] op = "Mul" -> Loop3(k, dest, l, r, n,
                                    LAMBDA d, x, y : fma(RNeg(x), y, d))
             [] op = "Div" -> Loop3(k, dest, l, r, n,
                                    LAMBDA d, x, y : fma(RDiv(MinusOne, y), x, d)))
      [] destop = "Mul" ->
          (CASE op = "Add" -> Loop3(k, dest, l, r, n,
                                    LAMBDA d, x, y : fma(d, x, RMul(d, y)))
             [] op = "Sub" -> IllFormed(k)
             [] op = "Mul" -> mul_TT(mul_TT(k, dest, l), dest, r)
             [] op = "Div" -> mul_TT(div_TT(k, dest, r), dest, l))
      [] destop = "Div" ->
          (CASE op = "Add" -> Loop3(k, dest, l, r, n,
                                    LAMBDA d, x, y : RDiv(d, RAdd(x, y)))
             [] op = "Sub" -> Loop3(k, dest, l, r, n,
                                    LAMBDA d, x, y : RDiv(d, RSub(x, y)))
             [] op = "Mul" -> div_TT(div_TT(k, dest, l), dest, r)
             [] op = "Div" -> div_TT(mul_TT(k, dest, r), dest, l))
      [] destop = "Assign" ->
          (CASE op = "Add" -> add_TT(copyTo(k, dest, l), dest, r)
             [] op = "Sub" -> sub_TT(copyTo(k, dest, l), dest, r)
             [] op = "Mul" -> mul_TT(copyTo(k, dest, l), dest, r)
             [] op = "Div" -> div_TT(copyTo(k, dest, l), dest, r))

\* impl::VVOPImpl<double, sa, sb, op, destop>::apply
VVOPImpl_double(op, destop, k, dest, exp) ==
    LET l == exp.lhs
        r == exp.rhs
        n == size(k, l)
        nr == size(k, r)
        k1 == Vector_assign(k, dest, l)
    IN
    CASE destop = "Add" ->
          (CASE op = "Add" -> cblas_daxpy(cblas_daxpy(k, n, One, l, 1, dest), nr, One, r, 1, dest)
             [] op = "Sub" -> cblas_daxpy(cblas_daxpy(k, n, One, l, 1, dest), nr, MinusOne, r, 1, dest)
             [] op = "Mul" -> Loop3(k, dest, l, r, n, LAMBDA d, x, y : fma(x, y, d))
             [] op = "Div" -> Loop3(k, dest, l, r, n,
                                    LAMBDA d, x, y : fma(x, RDiv(One, y), d)))
      [] destop = "Sub" ->
          (CASE op = "Add" -> cblas_daxpy(cblas_daxpy(k, n, MinusOne, l, 1, dest), nr, MinusOne, r, 1, dest)
             [] op = "Sub" -> cblas_daxpy(cblas_daxpy(k, n, MinusOne, l, 1, dest), nr, One, r, 1, dest)
             [] op = "Mul" -> Loop3(k, dest, l, r, n,
                                    LAMBDA d, x, y : fma(RNeg(x), y, d))
             [] op = "Div" -> Loop3(k, dest, l, r, n,
                                    LAMBDA d, x, y : fma(RNeg(x), RDiv(One, y), d)))
      [] destop = "Mul" ->
          (CASE op = "Add" -> Loop3(k, dest, l, r, n,
                                    LAMBDA d, x, y : fma(d, x, RMul(d, y)))
             [] op = "Sub" -> Loop3(k, dest, l, r, n,
                                    LAMBDA d, x, y : fma(d, x, RMul(RNeg(d), y)))
             [] op = "Mul" -> mul_TT(mul_TT(k, dest, l), dest, r)
             [] op = "Div" -> mul_TT(div_TT(k, dest, r), dest, l))
      [] destop = "Div" ->
          (CASE op = "Add" -> Loop3(k, dest, l, r, n,
                                    LAMBDA d, x, y : RDiv(d, RAdd(x, y)))
             [] op = "Sub" -> Loop3(k, dest, l, r, n,
                                    LAMBDA d, x, y : RDiv(d, RSub(x, y)))
             [] op = "Mul" -> div_TT(div_TT(k, dest, l), dest, r)
             [] op = "Div" -> div_TT(mul_TT(k, dest, r), dest, l))
      [] destop = "Assign" ->
          IF k1.exc # "none" THEN k1
          ELSE
          (CASE op = "Add" -> cblas_daxpy(k1, nr, One, r, 1, dest)
             [] op = "Sub" -> cblas_daxpy(k1, nr, MinusOne, r, 1, dest)
             [] op = "Mul" -> mul_TT(k1, dest, r)
             [] op = "Div" -> div_TT(k1, dest, r))

\* impl::VVOPImpl<float, sa, sb, op, destop>::apply
VVOPImpl_float(op, destop, k, dest, exp) ==
    LET l == exp.lhs
        r == exp.rhs
        n == size(k, l)
        nr == size(k, r)
        k1 == Vector_assign(k, dest, l)
    IN
    CASE destop = "Add" ->
          (CASE op = "Add" -> cblas_saxpy(cblas_saxpy(k, n, One, l, 1, dest), nr, One, r, 1, dest)
             [] op = "Sub" -> cblas_saxpy(cblas_saxpy(k, n, One, l, 1, dest), nr, MinusOne, r, 1, dest)
             [] op = "Mul" -> Loop3(k, dest, l, r, n, LAMBDA d, x, y : fma(x, y, d))
             [] op = "Div" -> Loop3(k, dest, l, r, n,
                                    LAMBDA d, x, y : fma(x, RDiv(One, y), d)))
      [] destop = "Sub" ->
          (CASE op = "Add" -> cblas_saxpy(cblas_saxpy(k, n, MinusOne, l, 1, dest), nr, MinusOne, r, 1, dest)
             [] op = "Sub" -> cblas_saxpy(cblas_saxpy(k, n, MinusOne, l, 1, dest), nr, One, r, 1, dest)
             [] op = "Mul" -> Loop3(k, dest, l, r, n,
                                    LAMBDA d, x, y : fma(RNeg(x), y, d))
             [] op = "Div" -> Loop3(k, dest, l, r, n,
                                    LAMBDA d, x, y : fma(RNeg(x), RDiv(One, y), d)))
      [] destop = "Mul" ->
          (CASE op = "Add" -> Loop3(k, dest, l, r, n,
                                    LAMBDA d, x, y : fma(d, x, RMul(d, y)))
             [] op = "Sub" -> Loop3(k, dest, l, r, n,
                                    LAMBDA d, x, y : fma(d, x, RMul(RNeg(d), y)))
             [] op = "Mul" -> mul_TT(mul_TT(k, dest, l), dest, r)
             [] op = "Div" -> mul_TT(div_TT(k, dest, r), dest, l))
      [] destop = "Div" ->
          (CASE op = "Add" -> Loop3(k, dest, l, r, n,
                                    LAMBDA d, x, y : RDiv(d, RAdd(x, y)))
             [] op = "Sub" -> Loop3(k, dest, l, r, n,
                                    LAMBDA d, x, y : RDiv(d, RSub(x, y)))
             [] op = "Mul" -> div_TT(div_TT(k, dest, l), dest, r)
             [] op = "Div" -> div_TT(mul_TT(k, dest, r), dest, l))
      [] destop = "Assign" ->
          IF k1.exc # "none" THEN k1
          ELSE
          (CASE op = "Add" -> cblas_saxpy(k1, nr, One, r, 1, dest)
             [] op = "Sub" -> cblas_saxpy(k1, nr, MinusOne, r, 1, dest)
             [] op = "Mul" -> mul_TT(k1, dest, r)
             [] op = "Div" -> div_TT(k1, dest, r))

VVOPImpl(T, op, destop, k, dest, exp) ==
    CASE T = "double" -> VVOPImpl_double(op, destop, k, dest, exp)
      [] T = "float"  -> VVOPImpl_float(op, destop, k, dest, exp)
      [] OTHER        -> VVOPImpl_T(op, destop, k, dest, exp)

\* a comparison that never fails
SIZECHECK_none(sh, a, b) == FALSE

\* _LINALG_VECVEC_SIZECHECK: TRUE when the check throws
VECVEC_SIZECHECK(sh, a, b) == Product(sh[a]) # Product(sh[b])

\* _LINALG_SELFVEC_SIZECHECK (this = a): TRUE when the check throws
SELFVEC_SIZECHECK(sh, a, b) == Product(sh[a]) # Product(sh[b])

\* _LINALG_MATMAT_SIZECHECK: TRUE when the check throws
MATMAT_SIZECHECK(sh, a, b) == sh[a][1] # sh[b][1] \/ sh[a][2] # sh[b][2]

\* operator+ - * / (Vector, Vector) and (Matrix, Matrix): the descriptor
VVOP(a, b, op) == [lhs |-> a, rhs |-> b, op |-> op]

\* Vector::operator+=, -=, *=, /= (const Vector&) and the Matrix overloads:
\* the outcome as [m, oob, err]; only -=, *=, /= compare the sizes
ContainerCompound(destop, m, sh, dest, a) ==
    IF destop # "Add" /\ SELFVEC_SIZECHECK(sh, dest, a)
    THEN [m |-> m, oob |-> FALSE, err |-> LINALGSIZEERROR]
    ELSE LET k == CASE destop = "Add" -> add_TT(K0(m), dest, a)
                    [] destop = "Sub" -> sub_TT(K0(m), dest, a)
                    [] destop = "Mul" -> mul_TT(K0(m), dest, a)
                    [] destop = "Div" -> div_TT(K0(m), dest, a)
         IN  [m |-> k.m, oob |-> k.oob, err |-> "none"]

\* Vector::operator=, +=, -=, *=, /= (const impl::VVOP&): no comparison of
\* the destination with the operands; the outcome as [m, oob, err]
VectorConsumeVVOP(T, destop, m, dest, exp) ==
    LET k == VVOPImpl(T, exp.op, destop, K0(m), dest, exp)
    IN  IF k.ill THEN [m |-> m, oob |-> FALSE, err |-> "ill-formed",
                       overlap |-> FALSE]
        ELSE [m |-> k.m, oob |-> k.oob, err |-> k.exc, overlap |-> k.overlap]

\* Matrix::operator=(const Matrix&): throws unless rows and columns agree
Matrix_assign(m, sh, a, b) ==
    IF MATMAT_SIZECHECK(sh, a, b)
    THEN [m |-> m, oob |-> FALSE, err |-> "SIZE MISMATCH IN ASSIGNMENT"]
    ELSE LET k == memcpy(K0(m), a, b, Len(m[a]))
         IN  [m |-> k.m, oob |-> k.oob, err |-> "none"]


-----------------------------------------------------------------------------
(* impl::SVOPImpl<T, sa, op, destop>::apply(dest, exp) of the Vector family, *)
(* exp = [vec |-> container, scalar |-> value, op |-> tag].  The loops add,  *)
(* sub, mul, div run to dest.size().  mul(dest, -1.0) deduces T from dest    *)
(* and double from the literal, so it can be instantiated for double only.   *)

\* Vector::setOne
setOne(k, a) == fill_n(k, a, size(k, a), One)

\* the generic row
SVOPImpl_T(op, destop, k, dest, exp) ==
    LET v == exp.vec
        s == exp.scalar
        n == size(k, v)
    IN
    CASE destop = "Add" ->
          (CASE op = "Add"     -> add_TS(add_TT(k, dest, v), dest, s)
             [] op = "Sub"     -> sub_TS(add_TT(k, dest, v), dest, s)
             [] op = "SubLeft" -> add_TS(sub_TT(k, dest, v), dest, s)
             [] op = "Mul"     -> Loop2(k, dest, v, n, LAMBDA d, x : fma(s, x, d))
             [] op = "Div"     -> Loop2(k, dest, v, n,
                                        LAMBDA d, x : fma(RDiv(One, s), x, d))
             [] op = "DivLeft" -> Loop2(k, dest, v, n,
                                        LAMBDA d, x : fma(s, RDiv(One, x), d)))
      [] destop = "Sub" ->
          (CASE op = "Add"     -> sub_TS(sub_TT(k, dest, v), dest, s)
             [] op = "Sub"     -> add_TS(sub_TT(k, dest, v), dest, s)
             [] op = "SubLeft" -> sub_TS(add_TT(k, dest, v), dest, s)
             [] op = "Mul"     -> Loop2(k, dest, v, n, LAMBDA d, x : fma(RNeg(s), x, d))
             [] op = "Div"     -> Loop2(k, dest, v, n,
                                        LAMBDA d, x : fma(RDiv(MinusOne, s), x, d))
             [] op = "DivLeft" -> Loop2(k, dest, v, n,
                                        LAMBDA d, x : fma(RNeg(s), RDiv(One, x), d)))
      [] destop = "Mul" ->
          (CASE op = "Add"     -> Loop2(k, dest, v, n,
                                        LAMBDA d, x : fma(d, x, RMul(d, s)))
             [] op = "Sub"     -> Loop2(k, dest, v, n,
                                        LAMBDA d, x : fma(d, x, RMul(RNeg(d), s)))
             [] op = "SubLeft" -> Loop2(k, dest, v, n,
                                        LAMBDA d, x : fma(d, RNeg(x), RMul(d, s)))
             [] op = "Mul"     -> mul_TT(mul_TS(k, dest, s), dest, v)
             [] op = "Div"     -> mul_TT(div_TS(k, dest, s), dest, v)
             [] op = "DivLeft" -> mul_TS(div_TT(k, dest, v), dest, s))
      [] destop = "Div" ->
          (CASE op = "Add"     -> Loop2(k, dest, v, n, LAMBDA d, x : RDiv(d, RAdd(x, s)))
             [] op = "Sub"     -> Loop2(k, dest, v, n, LAMBDA d, x : RDiv(d, RSub(x, s)))
             [] op = "SubLeft" -> Loop2(k, dest, v, n, LAMBDA d, x : RDiv(d, RSub(s, x)))
             [] op = "Mul"     -> div_TT(div_TS(k, dest, s), dest, v)
             [] op = "Div"     -> div_TT(mul_TS(k, dest, s), dest, v)
             [] op = "DivLeft" -> div_TS(mul_TT(k, dest, v), dest, s))
      [] destop = "Assign" ->
          (CASE op = "Add"     -> add_TS(copyTo(k, dest, v), dest, s)
             [] op = "Sub"     -> sub_TS(copyTo(k, dest, v), dest, s)
             [] op = "SubLeft" -> IllFormed(k)
             [] op = "Mul"     -> mul_TS(copyTo(k, dest, v), dest, s)
             [] op = "Div"     -> div_TS(copyTo(k, dest, v), dest, s)
             [] op = "DivLeft" -> div_TT(mul_TS(setOne(k, dest), dest, s), dest, v))

\* the rows for double and float: they differ in the axpy routine and in
\* whether mul(dest, -1.0) can be instantiated
SVOPImpl_blas(isDouble, op, destop, k, dest, exp) ==
    LET v == exp.vec
        s == exp.scalar
        n == size(k, v)
        nd == size(k, dest)
        k1 == Vector_assign(k, dest, v)
    IN
    CASE destop = "Add" ->
          (CASE op = "Add"     -> axpy(axpy(k, n, One, v, 1, dest), n, One, <<s>>, 0, dest)
             [] op = "Sub"     -> axpy(axpy(k, nd, One, v, 1, dest),
                                       n, One, <<RNeg(s)>>, 0, dest)
             [] op = "SubLeft" -> axpy(axpy(k, nd, MinusOne, v, 1, dest),
                                       n, One, <<s>>, 0, dest)
             [] op = "Mul"     -> Loop2(k, dest, v, n, LAMBDA d, x : fma(s, x, d))
             [] op = "Div"     -> Loop2(k, dest, v, n,
                                        LAMBDA d, x : fma(RDiv(One, s), x, d))
             [] op = "DivLeft" -> Loop2(k, dest, v, n,
                                        LAMBDA d, x : fma(s, RDiv(One, x), d)))
      [] destop = "Sub" ->
          (CASE op = "Add"     -> axpy(axpy(k, n, MinusOne, v, 1, dest),
                                       n, One, <<RNeg(s)>>, 0, dest)
             [] op = "Sub"     -> axpy(axpy(k, n, MinusOne, v, 1, dest),
                                       n, One, <<s>>, 0, dest)
             [] op = "SubLeft" -> axpy(axpy(k, n, One, v, 1, dest),
                                       n, One, <<RNeg(s)>>, 0, dest)
             [] op = "Mul"     -> Loop2(k, dest, v, n, LAMBDA d, x : fma(RNeg(s), x, d))
             [] op = "Div"     -> Loop2(k, dest, v, n,
                                        LAMBDA d, x : fma(RDiv(MinusOne, s), x, d))
             [] op = "DivLeft" -> Loop2(k, dest, v, n,
                                        LAMBDA d, x : fma(RNeg(s), RDiv(One, x), d)))
      [] destop = "Mul" ->
          (CASE op = "Add"     -> Loop2(k, dest, v, n,
                                        LAMBDA d, x : fma(d, x, RMul(d, s)))
             [] op = "Sub"     -> Loop2(k, dest, v, n,
                                        LAMBDA d, x : fma(d, x, RMul(RNeg(d), s)))
             [] op = "SubLeft" -> Loop2(k, dest, v, n,
                                        LAMBDA d, x : fma(d, RNeg(x), RMul(d, s)))
             [] op = "Mul"     -> mul_TT(mul_TS(k, dest, s), dest, v)
             [] op = "Div"     -> mul_TT(div_TS(k, dest, s), dest, v)
             [] op = "DivLeft" -> mul_TS(div_TT(k, dest, v), dest, s))
      [] destop = "Div" ->
          (CASE op = "Add"     -> Loop2(k, dest, v, n, LAMBDA d, x : RDiv(d, RAdd(x, s)))
             [] op = "Sub"     -> Loop2(k, dest, v, n, LAMBDA d, x : RDiv(d, RSub(x, s)))
             [] op = "SubLeft" -> Loop2(k, dest, v, n, LAMBDA d, x : RDiv(d, RSub(s, x)))
             [] op = "Mul"     -> div_TT(div_TS(k, dest, s), dest, v)
             [] op = "Div"     -> div_TT(mul_TS(k, dest, s), dest, v)
             [] op = "DivLeft" -> div_TS(mul_TT(k, dest, v), dest, s))
      [] destop = "Assign" ->
          IF op = "DivLeft" THEN div_TT(setConstant(k, dest, s), dest, v)
          ELSE IF op = "SubLeft" /\ ~isDouble THEN IllFormed(k)
          ELSE IF k1.exc # "none" THEN k1
          ELSE
          (CASE op = "Add"     -> axpy(k1, n, One, <<s>>, 0, dest)
             [] op = "Sub"     -> axpy(k1, n, One, <<RNeg(s)>>, 0, dest)
             [] op = "SubLeft" -> axpy(mul_TS(k1, dest, MinusOne), n, One, <<s>>, 0, dest)
             [] op = "Mul"     -> mul_TS(k1, dest, s)
             [] op = "Div"     -> div_TS(k1, dest, s))

\* impl::SVOPImpl<double, sa, op, destop>::apply
SVOPImpl_double(op, destop, k, dest, exp) ==
    SVOPImpl_blas(TRUE, op, destop, k, dest, exp)

\* impl::SVOPImpl<float, sa, op, destop>::apply
SVOPImpl_float(op, destop, k, dest, exp) ==
    SVOPImpl_blas(FALSE, op, destop, k, dest, exp)

SVOPImpl(T, op, destop, k, dest, exp) ==
    CASE T = "double" -> SVOPImpl_double(op, destop, k, dest, exp)
      [] T = "float"  -> SVOPImpl_float(op, destop, k, dest, exp)
      [] OTHER        -> SVOPImpl_T(op, destop, k, dest, exp)

\* operator+ - * / (Vector, scalar) and (scalar, Vector): the descriptor
SVOP(a, scalar, op) == [vec |-> a, scalar |-> scalar, op |-> op]

\* the indices of buffer c that a kernel run stored to, or loaded from
Indices(cnt) == {i \in 1..Len(cnt) : cnt[i] > 0}

\* Vector::operator=, +=, -=, *=, /= (const impl::SVOP&): the kernel is
\* called with no comparison of sizes; the outcome as [m, oob, err] with the
\* indices of dest written and of the operand read
VectorConsumeSVOP(T, destop, m, dest, exp) ==
    LET k == SVOPImpl(T, exp.op, destop, K0(m), dest, exp)
    IN  IF k.ill
        THEN [m |-> m, oob |-> FALSE, err |-> "ill-formed",
              written |-> {}, read |-> {}]
        ELSE [m |-> k.m, oob |-> k.oob, err |-> k.exc,
              written |-> Indices(k.wr[dest]), read |-> Indices(k.rd[exp.vec])]

-----------------------------------------------------------------------------
(* SpecSV: one statement D OP= (V SRC s) on two Vectors                     *)

VectorShapes == {sh \in Shapes : Len(sh) = 1}

InitSV ==
    /\ elemT \in ElemTypes
    /\ shp \in [{"D", "V"} -> VectorShapes]
    /\ \E d \in Buffers(DestVals, shp["D"]), v \in Buffers(VecVals, shp["V"]) :
          mem = [c \in {"D", "V"} |-> IF c = "D" THEN d ELSE v]
    /\ pre = mem
    /\ call = [fn |-> "none"]
    /\ err = "none"
    /\ oob = FALSE
    /\ pc = "ready"
    /\ objs = <<>>
    /\ heap = <<>>
    /\ last = <<>>

\* the statement D DESTOP (V OP s): the descriptor is built, then consumed
SVStatement(destop) ==
    /\ pc = "ready"
    /\ \E op \in SrcTags, s \in ScalarVals :
          LET exp == SVOP("V", s, op)
              r == VectorConsumeSVOP(elemT, destop, mem, "D", exp)
          IN  /\ mem' = r.m
              /\ oob' = r.oob
              /\ err' = r.err
              /\ call' = [fn |-> "SVOP", destop |-> destop, op |-> op,
                          scalar |-> s, written |-> r.written, read |-> r.read]
    /\ pre' = mem
    /\ pc' = "done"
    /\ UNCHANGED <<elemT, shp, lvars>>

\* Vector::operator+=, -=, *=, /=, = (const impl::SVOP&)
VectorPlusEqSVOP == SVStatement("Add")
VectorMinusEqSVOP == SVStatement("Sub")
VectorTimesEqSVOP == SVStatement("Mul")
VectorDivEqSVOP == SVStatement("Div")
VectorAssignSVOP == SVStatement("Assign")

NextSV ==
    \/ VectorPlusEqSVOP
    \/ VectorMinusEqSVOP
    \/ VectorTimesEqSVOP
    \/ VectorDivEqSVOP
    \/ VectorAssignSVOP

SpecSV == InitSV /\ [][NextSV]_vars

-----------------------------------------------------------------------------
(* SpecVV: one statement on Vector or Matrix operands D, L, R; C receives   *)
(* the value of an expression that returns a container                     *)

RhsVals == {Rat(2), Rat(1)}

VVNames == {"D", "L", "R", "C"}

IsVector == Len(shp["D"]) = 1
IsMatrix == Len(shp["D"]) = 2

InitVV ==
    /\ elemT \in ElemTypes
    /\ \E rank \in 1..2 :
          \E sd \in Shapes, sl \in Shapes, sr \in Shapes :
             /\ Len(sd) = rank /\ Len(sl) = rank /\ Len(sr) = rank
             /\ shp = [c \in VVNames |->
                         CASE c = "D" -> sd [] c = "L" -> sl
                           [] c = "R" -> sr [] OTHER  -> <<0>>]
    /\ \E d \in Buffers(DestVals, shp["D"]), l \in Buffers(VecVals, shp["L"]),
          r \in Buffers(RhsVals, shp["R"]) :
          mem = [c \in VVNames |->
                   CASE c = "D" -> d [] c = "L" -> l
                     [] c = "R" -> r [] OTHER  -> <<>>]
    /\ pre = mem
    /\ call = [fn |-> "none"]
    /\ err = "none"
    /\ oob = FALSE
    /\ pc = "ready"
    /\ objs = <<>>
    /\ heap = <<>>
    /\ last = <<>>

\* the result r = [m, oob, err] of a statement becomes the next state
Finish(fn, r) ==
    /\ mem' = r.m
    /\ oob' = r.oob
    /\ err' = r.err
    /\ call' = fn
    /\ pre' = mem
    /\ pc' = "done"
    /\ UNCHANGED <<elemT, shp, lvars>>

\* D OP= L on containers
CompoundStatement(destop) ==
    /\ pc = "ready"
    /\ Finish([fn |-> "compound", destop |-> destop],
              ContainerCompound(destop, mem, shp, "D", "L"))

\* Vector::operator+=(const Vector&) ... operator/=(const Vector&)
VectorPlusEq == IsVector /\ CompoundStatement("Add")
VectorMinusEq == IsVector /\ CompoundStatement("Sub")
VectorTimesEq == IsVector /\ CompoundStatement("Mul")
VectorDivEq == IsVector /\ CompoundStatement("Div")

\* Matrix::operator+=(const Matrix&) ... operator/=(const Matrix&)
MatrixPlusEq == IsMatrix /\ CompoundStatement("Add")
MatrixMinusEq == IsMatrix /\ CompoundStatement("Sub")
MatrixTimesEq == IsMatrix /\ CompoundStatement("Mul")
MatrixDivEq == IsMatrix /\ CompoundStatement("Div")

\* Vector::operator=(const Vector&)
VectorAssign ==
    /\ pc = "ready"
    /\ IsVector
    /\ LET k == Vector_assign(K0(mem), "D", "L")
       IN  Finish([fn |-> "assign"], [m |-> k.m, oob |-> k.oob, err |-> k.exc])

\* Matrix::operator=(const Matrix&)
MatrixAssign ==
    /\ pc = "ready"
    /\ IsMatrix
    /\ Finish([fn |-> "assign"], Matrix_assign(mem, shp, "D", "L"))

\* the expression L OP R: the size check, then the descriptor
BuildStatement(throws) ==
    /\ pc = "ready"
    /\ \E op \in VVTags :
          /\ call' = [fn |-> "build", exp |-> VVOP("L", "R", op)]
          /\ err' = IF throws THEN LINALGSIZEERROR ELSE "none"
          /\ pc' = IF throws THEN "done" ELSE "built"
    /\ pre' = mem
    /\ UNCHANGED <<elemT, mem, shp, oob, lvars>>

\* operator+, -, *, / (const Vector&, const Vector&)
BuildVVOP == IsVector /\ BuildStatement(VECVEC_SIZECHECK(shp, "L", "R"))

\* operator+, -, *, / (const Matrix&, const Matrix&)
BuildMMOP == IsMatrix /\ BuildStatement(MATMAT_SIZECHECK(shp, "L", "R"))

\* D DESTOP (L OP R): the descriptor built before is consumed
ConsumeStatement(destop) ==
    /\ pc = "built"
    /\ IsVector
    /\ Finish([fn |-> "consume", destop |-> destop, exp |-> call.exp],
              VectorConsumeVVOP(elemT, destop, mem, "D", call.exp))

\* Vector::operator+=, -=, *=, /=, = (const impl::VVOP&)
VectorPlusEqVVOP == ConsumeStatement("Add")
VectorMinusEqVVOP == ConsumeStatement("Sub")
VectorTimesEqVVOP == ConsumeStatement("Mul")
VectorDivEqVVOP == ConsumeStatement("Div")
VectorAssignVVOP == ConsumeStatement("Assign")

\* Tensor family, operator+(const Vector&, const Vector&):
\* Vector c = a; c += b; return c;
VectorPlus ==
    /\ pc = "ready"
    /\ IsVector
    /\ LET m1 == [mem EXCEPT !["C"] = mem["L"]]
           s1 == [shp EXCEPT !["C"] = shp["L"]]
           r == TensorPlusEqTensor(elemT, m1, s1, "C", "R")
       IN  /\ mem' = IF r.err = "none" THEN r.m ELSE mem
           /\ shp' = IF r.err = "none" THEN s1 ELSE shp
           /\ oob' = r.oob
           /\ err' = r.err
    /\ call' = [fn |-> "plus"]
    /\ pre' = mem
    /\ pc' = "done"
    /\ UNCHANGED <<elemT, lvars>>

\* Tensor family, the operators on a Vector and a scalar that return a
\* Vector: Vector c = a; c OP= b; return c;  The scalar-first forms
\* operator-(const T& b, const Vector& a) and operator/(const T& b,
\* const Vector& a) have the same body as the vector-first forms.
VectorScalarStatement(op, left) ==
    /\ pc = "ready"
    /\ IsVector
    /\ \E s \in ScalarVals :
          LET m1 == [mem EXCEPT !["C"] = mem["L"]]
              res == IF op = "Sub" THEN TensorMinusEqScalar(elemT, m1, "C", s)
                     ELSE TensorDivEqScalar(elemT, m1, "C", s)
          IN  /\ mem' = res.m
              /\ oob' = res.oob
              /\ err' = res.err
              /\ call' = [fn |-> "vector scalar", op |-> op, left |-> left,
                          scalar |-> s]
    /\ shp' = [shp EXCEPT !["C"] = shp["L"]]
    /\ pre' = mem
    /\ pc' = "done"
    /\ UNCHANGED <<elemT, lvars>>

\* operator-(const Vector& a, const T& b)
VectorMinusT == VectorScalarStatement("Sub", "vector")
\* operator-(const T& b, const Vector& a)
TMinusVector == VectorScalarStatement("Sub", "scalar")
\* operator/(const Vector& a, const T& b)
VectorDivT == VectorScalarStatement("Div", "vector")
\* operator/(const T& b, const Vector& a)
TDivVector == VectorScalarStatement("Div", "scalar")

NextVV ==
    \/ VectorPlusEq
    \/ VectorMinusEq
    \/ VectorTimesEq
    \/ VectorDivEq
    \/ MatrixPlusEq
    \/ MatrixMinusEq
    \/ MatrixTimesEq
    \/ MatrixDivEq
    \/ VectorAssign
    \/ MatrixAssign
    \/ BuildVVOP
    \/ BuildMMOP
    \/ VectorPlusEqVVOP
    \/ VectorMinusEqVVOP
    \/ VectorTimesEqVVOP
    \/ VectorDivEqVVOP
    \/ VectorAssignVVOP
    \/ VectorPlus
    \/ VectorMinusT
    \/ TMinusVector
    \/ VectorDivT
    \/ TDivVector

SpecVV == InitVV /\ [][NextVV]_vars

-----------------------------------------------------------------------------
(* SpecAlias: one statement whose destination D is also an operand of the   *)
(* descriptor it consumes: D OP= (D SRC s) on Tensors, D OP= (B SRC D) and  *)
(* D OP= (D SRC B) on Vectors.  A kernel that memcpy's D onto itself has no *)
(* defined outcome: D may be left as computed or hold anything (pc = "ub"). *)

InitAlias ==
    /\ elemT \in ElemTypes
    /\ \E sh \in VectorShapes : shp = [c \in {"D", "B"} |-> sh]
    /\ \E d \in Buffers(DestVals, shp["D"]), b \in Buffers(RhsVals, shp["B"]) :
          mem = [c \in {"D", "B"} |-> IF c = "D" THEN d ELSE b]
    /\ pre = mem
    /\ call = [fn |-> "none"]
    /\ err = "none"
    /\ oob = FALSE
    /\ pc = "ready"
    /\ objs = <<>>
    /\ heap = <<>>
    /\ last = <<>>

\* the outcome r of the kernel becomes the next state, or any state of D
\* when the kernel copied D onto itself
AliasDone(fn, r) ==
    /\ pc = "ready"
    /\ \/ /\ mem' = r.m
          /\ pc' = "done"
       \/ /\ r.overlap
          /\ \E g \in Buffers(DestVals, shp["D"]) : mem' = [mem EXCEPT !["D"] = g]
          /\ pc' = "ub"
    /\ oob' = r.oob
    /\ err' = r.err
    /\ call' = fn
    /\ pre' = mem
    /\ UNCHANGED <<elemT, shp, lvars>>

\* D DESTOP (D OP s) on a Tensor
SelfSTOP(destop) ==
    \E op \in SrcTags, s \in ScalarVals :
       AliasDone([fn |-> "self STOP", destop |-> destop, op |-> op, scalar |-> s],
                 TensorConsumeSTOP(elemT, destop, mem, shp, "D", STOP("D", s, op)))

\* D DESTOP (B OP D) and D DESTOP (D OP B) on Vectors
SelfVVOP(destop) ==
    \E op \in VVTags, left \in BOOLEAN :
       LET exp == IF left THEN VVOP("D", "B", op) ELSE VVOP("B", "D", op)
       IN  AliasDone([fn |-> "self VVOP", destop |-> destop, exp |-> exp],
                     VectorConsumeVVOP(elemT, destop, mem, "D", exp))

\* Tensor::operator+=, -=, *=, /=, = (const impl::STOP&), operand = *this
SelfPlusEqSTOP == SelfSTOP("Add")
SelfMinusEqSTOP == SelfSTOP("Sub")
SelfTimesEqSTOP == SelfSTOP("Mul")
SelfDivEqSTOP == SelfSTOP("Div")
SelfAssignSTOP == SelfSTOP("Assign")

\* Vector::operator+=, -=, *=, /=, = (const impl::VVOP&), an operand = *this
SelfPlusEqVVOP == SelfVVOP("Add")
SelfMinusEqVVOP == SelfVVOP("Sub")
SelfTimesEqVVOP == SelfVVOP("Mul")
SelfDivEqVVOP == SelfVVOP("Div")
SelfAssignVVOP == SelfVVOP("Assign")

NextAlias ==
    \/ SelfPlusEqSTOP
    \/ SelfMinusEqSTOP
    \/ SelfTimesEqSTOP
    \/ SelfDivEqSTOP
    \/ SelfAssignSTOP
    \/ SelfPlusEqVVOP
    \/ SelfMinusEqVVOP
    \/ SelfTimesEqVVOP
    \/ SelfDivEqVVOP
    \/ SelfAssignVVOP

SpecAlias == InitAlias /\ [][NextAlias]_vars

-----------------------------------------------------------------------------
(* SpecFind: SortableVector<E>::find(query) on a sorted vector v, one loop  *)
(* iteration per step.  lo, hi and mid are uint64_t: their arithmetic wraps *)
(* modulo 2^64.  The model keeps the wrap-around with the modulus           *)
(* 2^WordBits, which is far above every vector length and every sum lo + hi *)
(* of in-range indices.  A read of v[mid] with mid >= v.size() is undefined. *)

WordBits == 5
WordMod == 2 ^ WordBits

\* static_cast<uint64_t>(-1)
NotFound == WordMod - 1

\* uint64_t arithmetic
USub(a, b) == (a - b + WordMod) % WordMod
UAdd(a, b) == (a + b) % WordMod

MaxVec == 3
ElemVals == 1..3
QueryVals == 0..4

IsSorted(v) == \A i \in 1..(Len(v) - 1) : v[i] <= v[i + 1]

SortedVectors ==
    UNION {{v \in [1..n -> ElemVals] : IsSorted(v)} : n \in 0..MaxVec}

InitFind ==
    /\ mem \in [{"v"} -> SortedVectors]
    /\ call \in [fn : {"none"}, query : QueryVals]
    /\ elemT = "int"
    /\ shp = <<>>
    /\ pre = mem
    /\ err = "none"
    /\ oob = FALSE
    /\ pc = "ready"
    /\ objs = <<>>
    /\ heap = <<>>
    /\ last = <<>>

\* uint64_t lo = 0, hi = v.size() - 1;
FindEnter ==
    /\ pc = "ready"
    /\ call' = [fn |-> "find", query |-> call.query, lo |-> 0,
                hi |-> USub(Len(mem["v"]), 1), ret |-> NotFound]
    /\ pc' = "loop"
    /\ UNCHANGED <<elemT, mem, shp, pre, err, oob, lvars>>

\* one iteration of  while (lo <= hi)
FindIterate ==
    /\ pc = "loop"
    /\ call.lo <= call.hi
    /\ LET mid == UAdd(call.lo, call.hi) \div 2
       IN  IF mid >= Len(mem["v"])
           THEN /\ oob' = TRUE
                /\ pc' = "ub"
                /\ call' = call
           ELSE LET midE == mem["v"][mid + 1]
                IN  /\ oob' = oob
                    /\ IF midE = call.query
                       THEN /\ call' = [call EXCEPT !.ret = mid]
                            /\ pc' = "done"
                       ELSE IF midE < call.query
                       THEN /\ call' = [call EXCEPT !.lo = UAdd(mid, 1)]
                            /\ pc' = "loop"
                       ELSE /\ call' = [call EXCEPT !.hi = USub(mid, 1)]
                            /\ pc' = "loop"
    /\ UNCHANGED <<elemT, mem, shp, pre, err, lvars>>

\* the loop ends: return static_cast<uint64_t>(-1);
FindExit ==
    /\ pc = "loop"
    /\ call.lo > call.hi
    /\ call' = [call EXCEPT !.ret = NotFound]
    /\ pc' = "done"
    /\ UNCHANGED <<elemT, mem, shp, pre, err, oob, lvars>>

NextFind ==
    \/ FindEnter
    \/ FindIterate
    \/ FindExit

SpecFind == InitFind /\ [][NextFind]_vars

-----------------------------------------------------------------------------
(* SpecEdge: the comparison operators of Edge applied to three edges, as    *)
(* an ordered container keyed by Edge (std::map<Edge, int>) applies them.   *)

MaxVertex == 3
Vertices == 0..MaxVertex
Edges == [u : Vertices, v : Vertices]

\* Edge::ordered
ordered(e) == [u |-> IF e.u < e.v THEN e.u ELSE e.v,
               v |-> IF e.u < e.v THEN e.v ELSE e.u]

\* operator==(const Edge&, const Edge&)
Edge_eq(e0, e1) == e0.u = e1.u /\ e0.v = e1.v

\* operator<(const Edge&, const Edge&)
Edge_lt(e0, e1) == e0.u < e1.u \/ e0.v < e1.v

\* operator<=(const Edge&, const Edge&)
Edge_le(e0, e1) == Edge_lt(e0, e1) \/ Edge_eq(e0, e1)

InitEdge ==
    /\ mem \in [1..3 -> Edges]
    /\ call = [fn |-> "none"]
    /\ elemT = "Edge"
    /\ shp = <<>>
    /\ pre = mem
    /\ err = "none"
    /\ oob = FALSE
    /\ pc = "ready"
    /\ objs = <<>>
    /\ heap = <<>>
    /\ last = <<>>

\* the three operators evaluated on every pair of the edges
EdgeCompare ==
    /\ pc = "ready"
    /\ call' = [fn |-> "compare",
                lt |-> [i \in 1..3, j \in 1..3 |-> Edge_lt(mem[i], mem[j])],
                eq |-> [i \in 1..3, j \in 1..3 |-> Edge_eq(mem[i], mem[j])],
                le |-> [i \in 1..3, j \in 1..3 |-> Edge_le(mem[i], mem[j])]]
    /\ pc' = "done"
    /\ UNCHANGED <<elemT, mem, shp, pre, err, oob, lvars>>

\* isTriangulationTopoSealed: Edge orderedEdge = edge.ordered() before the
\* edge is used as a key
EdgeOrder ==
    /\ pc = "ready"
    /\ \E i \in 1..3 :
          /\ mem[i] # ordered(mem[i])
          /\ mem' = [mem EXCEPT ![i] = ordered(mem[i])]
    /\ UNCHANGED <<elemT, shp, pre, call, err, oob, pc, lvars>>

NextEdge ==
    \/ EdgeCompare
    \/ EdgeOrder

SpecEdge == InitEdge /\ [][NextEdge]_vars

-----------------------------------------------------------------------------
(* Spec: the life cycle of Tensor objects over an explicit heap.            *)
(* Objects a, b are Tensor<T, 0, 0> (dynamically sized), s is               *)
(* Tensor<T, 1, 2> (fixed shape).  A world w = [o, h, err, ub] holds the    *)
(* objects, the heap, the exception in flight and the undefined behaviour   *)
(* met, if any; once either is set the remaining statements do not run.     *)

MaxBuf == 2

NULL == 0
WILD == -1
SELF == -2

DynNames == {"a", "b"}
StaticNames == {"s"}
Names == DynNames \cup StaticNames

IsStatic(x) == x \in StaticNames

\* compileTimeShape and _ctSize of the fixed-shape object
CtShape == <<1, 2>>
CtSize == Product(CtShape)

ZeroShape == <<0, 0>>

\* a buffer left as the allocator returned it, here holding ones
Unfilled(n) == [i \in 1..n |-> 1]

\* std::fill_n(data, _size, T(0.0))
Zeros(n) == [i \in 1..n |-> 0]

\* shapes a caller passes to a constructor or to alloc, and element values
ArgShapes == {<<1, 1>>, <<1, 2>>, <<2, 1>>}
WriteVals == {1}

\* what an uninitialised _shape or heapData member may hold
GarbageShapes == {ZeroShape, <<1, 2>>}
GarbagePtrs == {NULL, WILD}

BufIds == 1..MaxBuf
HasFresh(h) == \E p \in BufIds : h[p].st = "unused"
Fresh(h) == CHOOSE p \in BufIds : h[p].st = "unused" /\ \A q \in 1..(p - 1) : h[q].st # "unused"

\* an isAlloced() that never sees a buffer
isAlloced_never(ob) == FALSE

\* inline bool isAlloced() const { return static_cast<bool>(data); }
isAlloced(ob) == ob.data # NULL

\* whether alloc on object ob of slot x would ask the allocator for a buffer
NeedsHeap(x, ob) == ~IsStatic(x) /\ ~isAlloced(ob)

\* the outcomes of std::aligned_alloc open to an operation on slot x
AllocOutcomes(h, x, ob) ==
    IF ~NeedsHeap(x, ob) THEN {TRUE}
    ELSE IF HasFresh(h) THEN BOOLEAN ELSE {FALSE}

W0(o, h) == [o |-> o, h |-> h, err |-> "none", ub |-> "none"]
Stopped(w) == w.err # "none" \/ w.ub # "none"

\* the elements reachable through ptr()
Elems(o, h, x) ==
    IF o[x].data \in {NULL, WILD} THEN <<>>
    ELSE IF o[x].data = SELF THEN o[x].sdata
    ELSE h[o[x].data].cells

\* Tensor::alloc(shape); ok is whether std::aligned_alloc returns a buffer
W_alloc(w, x, shape, ok) ==
    IF Stopped(w) \/ isAlloced(w.o[x]) THEN w
    ELSE IF IsStatic(x)
    THEN [w EXCEPT !.o[x].shape = CtShape, !.o[x].size = CtSize,
                   !.o[x].data = SELF, !.o[x].sdata = Zeros(CtSize)]
    ELSE LET w1 == [w EXCEPT !.o[x].shape = shape, !.o[x].size = Product(shape)]
             p == Fresh(w.h)
         IN  IF ~ok THEN [w1 EXCEPT !.err = "bad_alloc"]
             ELSE [w1 EXCEPT !.o[x].heapData = p, !.o[x].data = p,
                             !.h[p] = [st |-> "live", cells |-> Zeros(Product(shape))]]

\* std::free(p)
W_stdfree(w, p) ==
    IF p = NULL THEN w
    ELSE IF p = WILD THEN [w EXCEPT !.ub = "free of a pointer not from the allocator"]
    ELSE IF w.h[p].st = "live" THEN [w EXCEPT !.h[p] = [st |-> "freed", cells |-> <<>>]]
    ELSE [w EXCEPT !.ub = "double free"]

\* Tensor::free()
W_free(w, x) ==
    IF Stopped(w) THEN w
    ELSE LET w1 == IF IsStatic(x) THEN w ELSE W_stdfree(w, w.o[x].heapData)
         IN  IF Stopped(w1) THEN w1
             ELSE [w1 EXCEPT !.o[x].data = NULL, !.o[x].size = 0,
                             !.o[x].shape = ZeroShape]

\* a copy of the pointer in place of a copy of the elements
W_memcpy_shallow(w, x, y) ==
    IF Stopped(w) THEN w ELSE [w EXCEPT !.o[x].data = w.o[y].data]

\* std::memcpy(ptr(), other.ptr(), sizeof(T) * other.size())
W_memcpy(w, x, y) ==
    LET n == w.o[y].size
        src == Elems(w.o, w.h, y)
        dst == Elems(w.o, w.h, x)
        new == [i \in 1..Len(dst) |-> IF i <= n THEN src[i] ELSE dst[i]]
    IN  IF Stopped(w) \/ n = 0 THEN w
        ELSE IF w.o[x].data \in {NULL, WILD} \/ w.o[y].data \in {NULL, WILD}
        THEN [w EXCEPT !.ub = "memcpy through an invalid pointer"]
        ELSE IF n > Len(dst) \/ n > Len(src)
        THEN [w EXCEPT !.ub = "memcpy outside a buffer"]
        ELSE IF w.o[x].data = SELF THEN [w EXCEPT !.o[x].sdata = new]
        ELSE [w EXCEPT !.h[w.o[x].data].cells = new]

\* a shape check that lets every pair of shapes through
W_checkShape_none(w, a1, a2) == w

\* checkShape inside a member function: throws on a mismatch
W_checkShape(w, a1, a2) ==
    IF Stopped(w) \/ checkShape(a1, a2) = "none" THEN w
    ELSE [w EXCEPT !.err = checkShape(a1, a2)]

\* Tensor::operator=(const Tensor<T, ddims...>&): source of another type
W_assignOther(w, x, y) ==
    W_memcpy(W_checkShape(w, w.o[x].shape, w.o[y].shape), x, y)

\* Tensor::operator=(const Tensor<T, dims...>&): source of the same type
W_assignSame(w, x, y, ok) ==
    IF isAlloced(w.o[x])
    THEN W_memcpy(W_checkShape(w, w.o[x].shape, w.o[y].shape), x, y)
    ELSE W_memcpy(W_alloc(w, x, w.o[y].shape, ok), x, y)

\* a slot holding no object
Dead == [alive |-> FALSE, heapData |-> NULL, data |-> NULL, size |-> 0,
         shape |-> ZeroShape, sdata |-> <<>>]

\* the members before a constructor body runs: data = nullptr, _size = 0,
\* dataHolder and _shape not initialised (gp, gs are what they happen to hold)
Raw(x, gp, gs) ==
    IF IsStatic(x)
    THEN [alive |-> TRUE, heapData |-> NULL, data |-> NULL, size |-> 0,
          shape |-> ZeroShape, sdata |-> Zeros(CtSize)]
    ELSE [alive |-> TRUE, heapData |-> gp, data |-> NULL, size |-> 0,
          shape |-> gs, sdata |-> <<>>]

Init ==
    /\ objs = [x \in Names |-> Dead]
    /\ heap = [p \in BufIds |-> [st |-> "unused", cells |-> <<>>]]
    /\ last = [op |-> "init", dst |-> "none", src |-> "none", arg |-> <<>>,
               ub |-> "none"]
    /\ err = "none"
    /\ pc = "run"
    /\ elemT = "generic"
    /\ mem = <<>>
    /\ shp = <<>>
    /\ pre = <<>>
    /\ call = [fn |-> "none"]
    /\ oob = FALSE

\* the world w reached by an operation becomes the next state; last records
\* the operation, its objects and its shape argument
CommitArg(w, op, dst, src, arg) ==
    /\ objs' = w.o
    /\ heap' = w.h
    /\ err' = w.err
    /\ pc' = IF w.ub # "none" THEN "ub" ELSE "run"
    /\ last' = [op |-> op, dst |-> dst, src |-> src, arg |-> arg, ub |-> w.ub]
    /\ UNCHANGED <<elemT, mem, shp, pre, call, oob>>

Commit(w, op, dst, src) == CommitArg(w, op, dst, src, <<>>)

\* an exception leaves a constructor: a fully constructed object (the
\* delegated-to constructor returned) is destroyed, and the slot stays empty
Unwind(w, x, constructed) ==
    IF w.err = "none" \/ w.ub # "none" THEN w
    ELSE LET w1 == IF constructed THEN W_free([w EXCEPT !.err = "none"], x) ELSE w
         IN  [w1 EXCEPT !.o[x] = Dead, !.err = w.err]

\* Tensor()
DefaultConstruct ==
    /\ pc = "run"
    /\ \E x \in Names, gp \in GarbagePtrs, gs \in GarbageShapes :
          /\ ~objs[x].alive
          /\ IsStatic(x) => (gp = NULL /\ gs = ZeroShape)
          /\ LET w == W0([objs EXCEPT ![x] = Raw(x, gp, gs)], heap)
             IN  Commit(IF IsStatic(x) THEN W_alloc(w, x, ZeroShape, TRUE) ELSE w,
                        "Tensor()", x, "none")

\* Tensor(sz)
SizedConstruct ==
    /\ pc = "run"
    /\ \E x \in Names, sh \in ArgShapes :
       \E ok \in AllocOutcomes(heap, x, Dead) :
          /\ ~objs[x].alive
          /\ LET w == W0([objs EXCEPT ![x] = Raw(x, NULL, ZeroShape)], heap)
             IN  CommitArg(Unwind(W_alloc(w, x, sh, ok), x, FALSE),
                           "Tensor(sz)", x, "none", sh)

\* alloc(shape)
Alloc ==
    /\ pc = "run"
    /\ \E x \in Names, sh \in ArgShapes :
       \E ok \in AllocOutcomes(heap, x, objs[x]) :
          /\ objs[x].alive
          /\ CommitArg(W_alloc(W0(objs, heap), x, sh, ok), "alloc", x, "none", sh)

\* free()
Free ==
    /\ pc = "run"
    /\ \E x \in Names :
          /\ objs[x].alive
          /\ Commit(W_free(W0(objs, heap), x), "free", x, "none")

\* ~Tensor()
Destroy ==
    /\ pc = "run"
    /\ \E x \in Names :
          /\ objs[x].alive
          /\ LET w == W_free(W0(objs, heap), x)
             IN  Commit(IF Stopped(w) THEN w ELSE [w EXCEPT !.o[x] = Dead],
                        "~Tensor", x, "none")

\* Tensor(const Tensor<T, dims...>& other) : Tensor() { alloc; *this = other; }
CopyConstruct ==
    /\ pc = "run"
    /\ \E x \in DynNames, y \in DynNames, gp \in GarbagePtrs :
       \E ok \in AllocOutcomes(heap, x, Dead) :
          /\ ~objs[x].alive
          /\ objs[y].alive
          /\ ok => gp = NULL
          /\ LET w == W0([objs EXCEPT ![x] = Raw(x, gp, ZeroShape)], heap)
                 w1 == W_alloc(w, x, objs[y].shape, ok)
                 w2 == W_assignSame(w1, x, y, ok)
             IN  Commit(Unwind(w2, x, TRUE), "copy construct", x, y)

\* operator=(const Tensor&), either overload by the type of the source
CopyAssign ==
    /\ pc = "run"
    /\ \E x \in Names, y \in Names :
       \E ok \in AllocOutcomes(heap, x, objs[x]) :
          /\ x # y
          /\ objs[x].alive
          /\ objs[y].alive
          /\ Commit(IF IsStatic(x) = IsStatic(y)
                    THEN W_assignSame(W0(objs, heap), x, y, ok)
                    ELSE W_assignOther(W0(objs, heap), x, y),
                    "copy assign", x, y)

\* the body of Tensor(Tensor&& other) for a dynamically sized type: the new
\* object x takes every member of y, and y is emptied
W_moveConstruct(w, x, y) ==
    [w EXCEPT !.o[x] = [w.o[y] EXCEPT !.alive = TRUE],
              !.o[y].heapData = NULL, !.o[y].data = NULL,
              !.o[y].size = 0, !.o[y].shape = ZeroShape]

\* the body of operator=(Tensor&& other) for a dynamically sized type
W_moveAssign(w, x, y) ==
    LET w1 == W_free(w, x)
    IN  IF Stopped(w1) THEN w1
        ELSE [w1 EXCEPT !.o[x].size = w.o[y].size,
                        !.o[x].shape = w.o[y].shape,
                        !.o[x].heapData = w.o[y].heapData,
                        !.o[x].data = w.o[y].heapData,
                        !.o[y].heapData = NULL, !.o[y].data = NULL,
                        !.o[y].size = 0, !.o[y].shape = ZeroShape]

\* Tensor(Tensor<T, dims...>&& other)
MoveConstruct ==
    /\ pc = "run"
    /\ \E x \in DynNames, y \in DynNames :
          /\ ~objs[x].alive
          /\ objs[y].alive
          /\ Commit(W_moveConstruct(W0(objs, heap), x, y), "move construct", x, y)

\* operator=(Tensor<T, dims...>&& other)
MoveAssign ==
    /\ pc = "run"
    /\ \E x \in DynNames, y \in DynNames :
          /\ x # y
          /\ objs[x].alive
          /\ objs[y].alive
          /\ Commit(W_moveAssign(W0(objs, heap), x, y), "move assign", x, y)

\* Tensor<T, 1, 2>(std::move(s)): the move constructor of the fixed-shape
\* type.  The new object copies the inline array and is a temporary, gone at
\* the end of the statement (its free() releases nothing); the source is
\* left with data = nullptr, _size = 0, _shape = {}.
MoveFromFixed ==
    /\ pc = "run"
    /\ \E y \in StaticNames :
          /\ objs[y].alive
          /\ Commit(W0([objs EXCEPT ![y].data = NULL, ![y].size = 0,
                                    ![y].shape = ZeroShape], heap),
                    "move construct", "none", y)

\* t[i] = v on an allocated object, i < size()
WriteElem ==
    /\ pc = "run"
    /\ \E x \in Names, v \in WriteVals :
          /\ objs[x].alive
          /\ isAlloced(objs[x])
          /\ \E i \in 1..Len(Elems(objs, heap, x)) :
                /\ i <= objs[x].size
                /\ Commit(IF objs[x].data = SELF
                          THEN W0([objs EXCEPT ![x].sdata[i] = v], heap)
                          ELSE W0(objs, [heap EXCEPT ![objs[x].data].cells[i] = v]),
                          "write", x, "none")

Next ==
    \/ DefaultConstruct
    \/ SizedConstruct
    \/ Alloc
    \/ Free
    \/ Destroy
    \/ CopyConstruct
    \/ CopyAssign
    \/ MoveConstruct
    \/ MoveAssign
    \/ MoveFromFixed
    \/ WriteElem

Spec == Init /\ [][Next]_vars

-----------------------------------------------------------------------------
(* SpecMatrix: the life cycle of Matrix objects.  Matrix<rw, cl, T> is a     *)
(* Tensor<T, rw, cl> with two more members, _rows and _cols; a, b are        *)
(* Matrix<0, 0, T> and s is Matrix<1, 2, T>.  alloc, free and the operator= *)
(* for a source of another type are the inherited Tensor members; the copy  *)
(* and move members are the implicit ones (base first, then _rows, _cols).  *)

\* rw and cl of the type of slot x
CtRows(x) == IF IsStatic(x) THEN CtShape[1] ELSE 0
CtCols(x) == IF IsStatic(x) THEN CtShape[2] ELSE 0

\* the member initialisers _rows(r), _cols(c), run when the base constructor
\* has returned
SetRC(w, x, r, c) ==
    IF Stopped(w) \/ ~w.o[x].alive THEN w
    ELSE [w EXCEPT !.o[x] = [f \in DOMAIN w.o[x] \cup {"rows", "cols"} |->
                               IF f = "rows" THEN r
                               ELSE IF f = "cols" THEN c
                               ELSE w.o[x][f]]]

\* rows() and cols()
rows(ob) == ob.rows
cols(ob) == ob.cols

\* Matrix()
MatrixDefaultConstruct ==
    /\ pc = "run"
    /\ \E x \in Names, gp \in GarbagePtrs, gs \in GarbageShapes :
          /\ ~objs[x].alive
          /\ IsStatic(x) => (gp = NULL /\ gs = ZeroShape)
          /\ LET w == W0([objs EXCEPT ![x] = Raw(x, gp, gs)], heap)
                 w1 == IF IsStatic(x) THEN W_alloc(w, x, ZeroShape, TRUE) ELSE w
             IN  Commit(SetRC(w1, x, CtRows(x), CtCols(x)), "Matrix()", x, "none")

\* Matrix(rows, cols)
MatrixSizedConstruct ==
    /\ pc = "run"
    /\ \E x \in Names, sh \in ArgShapes :
       \E ok \in AllocOutcomes(heap, x, Dead) :
          /\ ~objs[x].alive
          /\ LET w == W0([objs EXCEPT ![x] = Raw(x, NULL, ZeroShape)], heap)
                 w1 == Unwind(W_alloc(w, x, sh, ok), x, FALSE)
             IN  CommitArg(SetRC(w1, x, sh[1], sh[2]), "Matrix(rows, cols)", x, "none", sh)

\* Matrix(const Matrix<rrw, ccl, T>& other), other of another Matrix type
MatrixConvertConstruct ==
    /\ pc = "run"
    /\ \E x \in Names, y \in Names :
       \E ok \in AllocOutcomes(heap, x, Dead) :
          /\ IsStatic(x) # IsStatic(y)
          /\ ~objs[x].alive
          /\ objs[y].alive
          /\ LET w == W0([objs EXCEPT ![x] = Raw(x, NULL, ZeroShape)], heap)
                 w1 == Unwind(W_alloc(w, x, objs[y].shape, ok), x, FALSE)
             IN  Commit(SetRC(w1, x, rows(objs[y]), cols(objs[y])),
                        "Matrix(other type)", x, y)

\* the implicit Matrix(const Matrix&): Tensor(const Tensor&), then the members
MatrixCopyConstruct ==
    /\ pc = "run"
    /\ \E x \in DynNames, y \in DynNames, gp \in GarbagePtrs :
       \E ok \in AllocOutcomes(heap, x, Dead) :
          /\ ~objs[x].alive
          /\ objs[y].alive
          /\ ok => gp = NULL
          /\ LET w == W0([objs EXCEPT ![x] = Raw(x, gp, ZeroShape)], heap)
                 w1 == W_alloc(w, x, objs[y].shape, ok)
                 w2 == Unwind(W_assignSame(w1, x, y, ok), x, TRUE)
             IN  Commit(SetRC(w2, x, rows(objs[y]), cols(objs[y])),
                        "copy construct", x, y)

\* m = other: the implicit copy assignment for a source of the same type
\* (Tensor::operator=, then _rows and _cols), the inherited template
\* Tensor::operator= for a source of another type
MatrixCopyAssign ==
    /\ pc = "run"
    /\ \E x \in Names, y \in Names :
       \E ok \in AllocOutcomes(heap, x, objs[x]) :
          /\ x # y
          /\ objs[x].alive
          /\ objs[y].alive
          /\ Commit(IF IsStatic(x) = IsStatic(y)
                    THEN SetRC(W_assignSame(W0(objs, heap), x, y, ok), x,
                               rows(objs[y]), cols(objs[y]))
                    ELSE W_assignOther(W0(objs, heap), x, y),
                    "copy assign", x, y)

\* the implicit Matrix(Matrix&&): Tensor(Tensor&&), then the members; the
\* source keeps its _rows and _cols
MatrixMoveConstruct ==
    /\ pc = "run"
    /\ \E x \in DynNames, y \in DynNames :
          /\ ~objs[x].alive
          /\ objs[y].alive
          /\ Commit(SetRC(W_moveConstruct(W0(objs, heap), x, y), x,
                          rows(objs[y]), cols(objs[y])),
                    "move construct", x, y)

\* the implicit operator=(Matrix&&)
MatrixMoveAssign ==
    /\ pc = "run"
    /\ \E x \in DynNames, y \in DynNames :
          /\ x # y
          /\ objs[x].alive
          /\ objs[y].alive
          /\ Commit(SetRC(W_moveAssign(W0(objs, heap), x, y), x,
                          rows(objs[y]), cols(objs[y])),
                    "move assign", x, y)

NextMatrix ==
    \/ MatrixDefaultConstruct
    \/ MatrixSizedConstruct
    \/ MatrixConvertConstruct
    \/ MatrixCopyConstruct
    \/ MatrixCopyAssign
    \/ MatrixMoveConstruct
    \/ MatrixMoveAssign
    \/ Alloc
    \/ Free

\* every Matrix lives to the end of the run: rows(), cols() and shape() are
\* read on live objects only
\* Tensor::idx(iidx): the loop over the dimensions from position i on, with
\* the offset and stride accumulated so far; indices count from 0
RECURSIVE idxLoop(_, _, _, _, _)
idxLoop(shape, iidx, i, offset, stride) ==
    IF i > Len(shape) THEN offset
    ELSE idxLoop(shape, iidx, i + 1, offset + iidx[i] * stride, stride * shape[i])

idx(ob, iidx) == idxLoop(ob.shape, iidx, 1, 0, 1)

\* Matrix::idx(iidx0, iidx1) and Matrix::operator()(iidx0, iidx1)
Matrix_idx(ob, iidx0, iidx1) == iidx0 + rows(ob) * iidx1

SpecMatrix == Init /\ [][NextMatrix]_vars

-----------------------------------------------------------------------------
(* SpecIO: MatrixMarketIO::writeMatrix and readMatrix on one file.  A file  *)
(* is [exists, lines], a line a sequence of words, a word a string [str]    *)
(* or a printed number [neg, digits].  The matrices hold whole numbers of fewer  *)
(* than 16 digits, which "%.16g" prints in full.  A stream is               *)
(* [mode, lines, pos]: the mode it was opened with, the lines it can read   *)
(* and the next line to read.                                               *)

MaxDim == 2
IOVals == {0, 7, -12}

MM_PREMATURE_EOF == 12
MM_NO_HEADER == 14
MM_UNSUPPORTED_TYPE == 15
MM_COULD_NOT_WRITE_FILE == 17

MatrixMarketBanner == "%%MatrixMarket"
MM_MTX_STR == "matrix"

RECURSIVE Digits(_)
Digits(n) == IF n < 10 THEN <<n>> ELSE Append(Digits(n \div 10), n % 10)

RECURSIVE DigitsValue(_)
DigitsValue(ds) ==
    IF ds = <<>> THEN 0
    ELSE 10 * DigitsValue(SubSeq(ds, 1, Len(ds) - 1)) + ds[Len(ds)]

\* the conversions "%d" and "%.16g" of fprintf on a whole number
PrintNum(x) == [neg |-> x < 0, digits |-> Digits(IF x < 0 THEN -x ELSE x)]

\* the conversions "%d" and "%lf" of sscanf and fscanf on a printed number
ScanNum(w) == IF w.neg THEN -DigitsValue(w.digits) ELSE DigitsValue(w.digits)

Str(s) == [str |-> s]

IsNum(w) == "digits" \in DOMAIN w

\* the number of characters of a word
WordChars(w) ==
    IF IsNum(w) THEN Len(w.digits) + (IF w.neg THEN 1 ELSE 0) ELSE Len(w.str)

\* fprintf of words separated by one space and ended by a newline: the
\* line given to the stream and the return value, the number of characters
RECURSIVE LineChars(_)
LineChars(ws) ==
    IF ws = <<>> THEN 0 ELSE WordChars(Head(ws)) + 1 + LineChars(Tail(ws))

fprintf(lines, ws) == [lines |-> Append(lines, ws), ret |-> LineChars(ws)]

RECURSIVE Words(_)
Words(lines) == IF lines = <<>> THEN <<>> ELSE Head(lines) \o Words(Tail(lines))

\* fopen(fn, mode): "w" creates the file or truncates it to length zero
fopen(file, mode, ok) ==
    IF ~ok \/ (mode = "r" /\ ~file.exists)
    THEN [file |-> file, f |-> [mode |-> "null", lines |-> <<>>, pos |-> 1]]
    ELSE IF mode = "w"
    THEN [file |-> [exists |-> TRUE, lines |-> <<>>],
          f |-> [mode |-> "w", lines |-> <<>>, pos |-> 1]]
    ELSE [file |-> file, f |-> [mode |-> "r", lines |-> file.lines, pos |-> 1]]

\* fgets(line, MM_MAX_LINE_LENGTH, f): a stream opened for writing cannot
\* be read
fgets(f) ==
    IF f.mode # "r" \/ f.pos > Len(f.lines)
    THEN [null |-> TRUE, line |-> <<>>, f |-> f]
    ELSE [null |-> FALSE, line |-> f.lines[f.pos],
          f |-> [f EXCEPT !.pos = @ + 1]]

\* mm_initialize_typecode, mm_set_matrix, mm_set_array, mm_set_real,
\* mm_set_general
ClearTypecode == <<" ", " ", " ", "G">>
WriteTypecode ==
    [[[[ClearTypecode EXCEPT ![1] = "M"] EXCEPT ![2] = "A"]
                      EXCEPT ![3] = "R"] EXCEPT ![4] = "G"]

mm_is_matrix(tc) == tc[1] = "M"
mm_is_dense(tc) == tc[2] = "A"
mm_is_real(tc) == tc[3] = "R"

\* mm_typecode_to_str: the four words, <<>> for NULL
mm_typecode_to_str(tc) ==
    IF tc[2] \notin {"C", "A"} \/ tc[3] \notin {"R", "C", "P", "I"}
       \/ tc[4] \notin {"G", "S", "H", "K"}
    THEN <<>>
    ELSE << Str(MM_MTX_STR),
            Str(IF tc[2] = "C" THEN "coordinate" ELSE "array"),
            Str(CASE tc[3] = "R" -> "real"
                  [] tc[3] = "C" -> "complex"
                  [] tc[3] = "P" -> "pattern"
                  [] tc[3] = "I" -> "integer"),
            Str(CASE tc[4] = "G" -> "general"
                  [] tc[4] = "S" -> "symmetric"
                  [] tc[4] = "H" -> "hermitian"
                  [] tc[4] = "K" -> "skew-symmetric") >>

\* mm_write_banner: the line is written, then the character count returned
\* by fprintf is compared with 2
mm_write_banner(lines, tc) ==
    LET p == fprintf(lines, <<Str(MatrixMarketBanner)>> \o mm_typecode_to_str(tc))
    IN  [lines |-> p.lines,
         ret |-> IF p.ret # 2 THEN MM_COULD_NOT_WRITE_FILE ELSE 0]

\* mm_write_mtx_array_size
mm_write_mtx_array_size(lines, M, N) ==
    LET p == fprintf(lines, <<PrintNum(M), PrintNum(N)>>)
    IN  [lines |-> p.lines,
         ret |-> IF p.ret # 2 THEN MM_COULD_NOT_WRITE_FILE ELSE 0]

\* mm_read_banner
mm_read_banner(f) ==
    LET g == fgets(f)
        l == g.line
        tc2 == IF l[3] = Str("coordinate") THEN "C"
               ELSE IF l[3] = Str("array") THEN "A" ELSE " "
        tc3 == CASE l[4] = Str("real") -> "R"
                 [] l[4] = Str("complex") -> "C"
                 [] l[4] = Str("pattern") -> "P"
                 [] l[4] = Str("integer") -> "I"
                 [] OTHER -> " "
        tc4 == CASE l[5] = Str("general") -> "G"
                 [] l[5] = Str("symmetric") -> "S"
                 [] l[5] = Str("hermitian") -> "H"
                 [] l[5] = Str("skew-symmetric") -> "K"
                 [] OTHER -> " "
    IN  IF g.null \/ Len(l) < 5
        THEN [ret |-> MM_PREMATURE_EOF, tc |-> ClearTypecode, f |-> g.f]
        ELSE IF l[1] # Str(MatrixMarketBanner)
        THEN [ret |-> MM_NO_HEADER, tc |-> ClearTypecode, f |-> g.f]
        ELSE IF l[2] # Str(MM_MTX_STR) \/ tc2 = " " \/ tc3 = " " \/ tc4 = " "
        THEN [ret |-> MM_UNSUPPORTED_TYPE, tc |-> ClearTypecode, f |-> g.f]
        ELSE [ret |-> 0, tc |-> <<"M", tc2, tc3, tc4>>, f |-> g.f]

\* mm_read_mtx_array_size: the lines that start with '%' are skipped, then
\* two numbers are taken from the line read or, failing that, from what
\* follows it
RECURSIVE mm_read_mtx_array_size(_)
mm_read_mtx_array_size(f) ==
    LET g == fgets(f)
        l == g.line
        rest == Words(SubSeq(g.f.lines, g.f.pos, Len(g.f.lines)))
    IN  IF g.null THEN [ret |-> MM_PREMATURE_EOF, M |-> 0, N |-> 0, f |-> g.f]
        ELSE IF l # <<>> /\ l[1] = Str(MatrixMarketBanner)
        THEN mm_read_mtx_array_size(g.f)
        ELSE IF Len(l) >= 2 /\ IsNum(l[1]) /\ IsNum(l[2])
        THEN [ret |-> 0, M |-> ScanNum(l[1]), N |-> ScanNum(l[2]), f |-> g.f]
        ELSE IF Len(rest) < 2
        THEN [ret |-> MM_PREMATURE_EOF, M |-> 0, N |-> 0, f |-> g.f]
        ELSE [ret |-> 0, M |-> ScanNum(rest[1]), N |-> ScanNum(rest[2]),
              f |-> [g.f EXCEPT !.pos = Len(g.f.lines) + 1]]

\* Matrix(rows, cols) with its elements, stored column by column
MatrixOf(M, N, data) ==
    [rows |-> M, cols |-> N, shape |-> <<M, N>>, data |-> data]

NoMatrix == MatrixOf(0, 0, <<>>)

Matrices ==
    UNION {{MatrixOf(M, N, d) : d \in [1..(M * N) -> IOVals]} :
           <<M, N>> \in (1..MaxDim) \X (1..MaxDim)}

\* *mat(i, j)
At(mat, i, j) == mat.data[Matrix_idx(mat, i, j) + 1]

\* the loop of writeMatrix: for j, for i, one fprintf of *mat(i, j) each
ValueLines(mat) ==
    LET M == rows(mat)
        N == cols(mat)
    IN  [k \in 1..(M * N) |->
            <<PrintNum(At(mat, (k - 1) % M, (k - 1) \div M))>>]

\* the stream is not closed when writeMatrix throws: what it was given is
\* in the file only if the C library has flushed it
Thrown(lines, flushed, what) ==
    [file |-> [exists |-> TRUE, lines |-> IF flushed THEN lines ELSE <<>>],
     err |-> what]

\* MatrixMarketIO::writeMatrix(filename, mat)
writeMatrix(file, mat, ok, flushed) ==
    LET o == fopen(file, "w", ok)
        b == mm_write_banner(o.f.lines, WriteTypecode)
        s == mm_write_mtx_array_size(b.lines, rows(mat), cols(mat))
    IN  IF o.f.mode = "null"
        THEN [file |-> file, err |-> "ERROR OPENING FILE FOR WRITE"]
        ELSE IF b.ret # 0
        THEN Thrown(b.lines, flushed, "Error writing Matrix Market banner.")
        ELSE IF s.ret # 0
        THEN Thrown(s.lines, flushed, "Error writing matrix size.")
        ELSE [file |-> [exists |-> TRUE, lines |-> s.lines \o ValueLines(mat)],
              err |-> "none"]

\* the loop of readMatrix: for i, for j, one fscanf each, stored to
\* *mat(i, j); ws are the words left in the stream
ReadValues(M, N, ws) ==
    [p \in 1..(M * N) |->
        ScanNum(ws[((p - 1) % M) * N + ((p - 1) \div M) + 1])]

\* MatrixMarketIO::readMatrix(filename)
readMatrix(file, ok) ==
    LET o == fopen(file, "w", ok)
        b == mm_read_banner(o.f)
        s == mm_read_mtx_array_size(b.f)
        ws == Words(SubSeq(s.f.lines, s.f.pos, Len(s.f.lines)))
    IN  IF o.f.mode = "null"
        THEN [file |-> file, mat |-> NoMatrix,
              err |-> "ERROR OPENING FILE FOR READ"]
        ELSE IF b.ret # 0
        THEN [file |-> o.file, mat |-> NoMatrix,
              err |-> "Could not process Matrix Market banner."]
        ELSE IF ~mm_is_matrix(b.tc) \/ ~mm_is_dense(b.tc) \/ ~mm_is_real(b.tc)
        THEN [file |-> o.file, mat |-> NoMatrix,
              err |-> "Unsupported Matrix Market type"]
        ELSE IF s.ret # 0
        THEN [file |-> o.file, mat |-> NoMatrix,
              err |-> "Could not read matrix size."]
        ELSE IF Len(ws) < s.M * s.N
        THEN [file |-> o.file, mat |-> NoMatrix,
              err |-> "Error reading matrix entry."]
        ELSE [file |-> o.file, mat |-> MatrixOf(s.M, s.N, ReadValues(s.M, s.N, ws)),
              err |-> "none"]

\* a file in the array format holding mat: banner, size, the elements
\* column by column
ArrayFile(mat) ==
    [exists |-> TRUE,
     lines |-> << <<Str(MatrixMarketBanner)>> \o mm_typecode_to_str(WriteTypecode),
                  <<PrintNum(rows(mat)), PrintNum(cols(mat))>> >>
               \o ValueLines(mat)]

NoFile == [exists |-> FALSE, lines |-> <<>>]

\* the caller holds a matrix; the file is absent or holds some matrix of
\* the model
InitIO ==
    /\ \E mat \in Matrices, old \in Matrices, present \in BOOLEAN :
          /\ old.rows = 1
          /\ mem = [mat |-> mat,
                    file |-> IF present THEN ArrayFile(old) ELSE NoFile]
    /\ call = [fn |-> "none"]
    /\ elemT = "double"
    /\ shp = <<>>
    /\ pre = mem
    /\ err = "none"
    /\ oob = FALSE
    /\ pc = "ready"
    /\ objs = <<>>
    /\ heap = <<>>
    /\ last = <<>>

\* io.writeMatrix(fn, mat), the exception caught by the caller
WriteMatrix ==
    /\ pc = "ready"
    /\ \E ok \in BOOLEAN, flushed \in BOOLEAN :
          LET r == writeMatrix(mem.file, mem.mat, ok, flushed)
          IN  /\ mem' = [mem EXCEPT !.file = r.file]
              /\ call' = [fn |-> "writeMatrix", opened |-> ok,
                          before |-> mem.file, result |-> NoMatrix,
                          wrote |-> r.err]
              /\ err' = r.err
    /\ pc' = "written"
    /\ UNCHANGED <<elemT, shp, pre, oob, lvars>>

\* io.readMatrix(fn), the exception caught by the caller
ReadMatrix ==
    /\ pc \in {"ready", "written"}
    /\ \E ok \in BOOLEAN :
          LET r == readMatrix(mem.file, ok)
          IN  /\ mem' = [mem EXCEPT !.file = r.file]
              /\ call' = [fn |-> "readMatrix", opened |-> ok,
                          before |-> mem.file, result |-> r.mat,
                          wrote |-> IF pc = "written" /\ call.opened
                                    THEN call.wrote ELSE "not written"]
              /\ err' = r.err
    /\ pc' = "read"
    /\ UNCHANGED <<elemT, shp, pre, oob, lvars>>

NextIO ==
    \/ WriteMatrix
    \/ ReadMatrix

SpecIO == InitIO /\ [][NextIO]_vars

-----------------------------------------------------------------------------
(* Properties of SpecSTOP                                                   *)

\* tmp = x SRC s, the materialised operand
SrcApply(op, x, s) ==
    CASE op = "Add"     -> RAdd(x, s)
      [] op = "Sub"     -> RSub(x, s)
      [] op = "SubLeft" -> RSub(s, x)
      [] op = "Mul"     -> RMul(x, s)
      [] op = "Div"     -> RDiv(x, s)
      [] op = "DivLeft" -> RDiv(s, x)

\* d DST= t
DestApply(destop, d, t) ==
    CASE destop = "Add"    -> RAdd(d, t)
      [] destop = "Sub"    -> RSub(d, t)
      [] destop = "Mul"    -> RMul(d, t)
      [] destop = "Div"    -> RDiv(d, t)
      [] destop = "Assign" -> t

\* materialise tmp = V SRC s, then D DST= tmp elementwise
Materialised(destop, op, d, v, s) ==
    [i \in 1..Len(d) |-> DestApply(destop, d[i], SrcApply(op, v[i], s))]

\* no divisor of the materialised computation is zero
DivisorsNonZero(destop, op, d, v, s) ==
    \A i \in 1..Len(d) :
        /\ ~IsNaN(SrcApply(op, v[i], s))
        /\ ~IsNaN(DestApply(destop, d[i], SrcApply(op, v[i], s)))

ShapeErrors == {"DIMENSION ERROR", "SIZE MISMATCH ERROR"}

StopDone == pc = "done" /\ call.fn = "STOP"

\* C1: for every source tag, every compound destination operator and equal
\* shapes of D and V (divisors non-zero), D OP= (V SRC s) leaves D equal to
\* the materialised tmp = V SRC s followed by D OP= tmp, in exact arithmetic.
C1_FusionEquivalence ==
    (/\ StopDone
     /\ call.destop \in CompoundTags
     /\ shp["D"] = shp["V"]
     /\ DivisorsNonZero(call.destop, call.op, pre["D"], pre["V"], call.scalar))
    => /\ err = "none"
       /\ mem["D"] = Materialised(call.destop, call.op, pre["D"], pre["V"],
                                  call.scalar)

C1_Witness ==
    /\ StopDone
    /\ elemT = "generic"
    /\ call.destop = "Div"
    /\ call.op = "DivLeft"
    /\ shp["D"] = <<1, 2>>
    /\ shp["V"] = <<1, 2>>
    /\ DivisorsNonZero("Div", "DivLeft", pre["D"], pre["V"], call.scalar)
    /\ err = "none"
    /\ mem["D"] # pre["D"]

\* C2: for every source tag and equal shapes of D and V, D = (V SRC s) sets
\* every D[i] to V[i] SRC s, whatever D held before.
C2_AssignSetsResult ==
    (/\ StopDone
     /\ call.destop = "Assign"
     /\ shp["D"] = shp["V"])
    => /\ err = "none"
       /\ \A i \in 1..Len(pre["V"]) :
             ~IsNaN(SrcApply(call.op, pre["V"][i], call.scalar))
             => mem["D"][i] = SrcApply(call.op, pre["V"][i], call.scalar)

\* C4: when the destination's shape differs from the shape of the
\* descriptor's operand, =, +=, -=, *=, /= raise a shape error and leave the
\* destination's elements and shape, and the operand, as they were.
C4_ShapeCheckFirst ==
    [][(pc = "ready" /\ pc' = "done" /\ call'.fn = "STOP"
        /\ shp["D"] # shp["V"])
       => /\ err' \in ShapeErrors
          /\ mem' = mem
          /\ shp' = shp
          /\ ~oob']_vars

C4_Witness ==
    /\ StopDone
    /\ shp["D"] = <<1, 2>>
    /\ shp["V"] = <<2, 1>>
    /\ call.destop = "Mul"
    /\ err = "SIZE MISMATCH ERROR"
    /\ mem = pre

-----------------------------------------------------------------------------
(* Properties of SpecVV                                                     *)

\* tmp = x SRC y for a container-combine descriptor
VVApply(op, x, y) ==
    CASE op = "Add" -> RAdd(x, y)
      [] op = "Sub" -> RSub(x, y)
      [] op = "Mul" -> RMul(x, y)
      [] op = "Div" -> RDiv(x, y)

\* materialise tmp = L SRC R, then D DST= tmp elementwise
MaterialisedVV(destop, op, d, l, r) ==
    [i \in 1..Len(d) |-> DestApply(destop, d[i], VVApply(op, l[i], r[i]))]

DivisorsNonZeroVV(destop, op, d, l, r) ==
    \A i \in 1..Len(d) :
        /\ ~IsNaN(VVApply(op, l[i], r[i]))
        /\ ~IsNaN(DestApply(destop, d[i], VVApply(op, l[i], r[i])))

SizeErrors == {LINALGSIZEERROR, "SIZE MISMATCH IN ASSIGNMENT"}

ConsumeDone == pc = "done" /\ call.fn = "consume"

\* C3: for every source tag in {Add, Sub, Mul, Div}, every destination tag
\* and equal-size D, L, R, consuming (L SRC R) into D leaves D equal to the
\* materialised tmp = L SRC R followed by D DST= tmp.
C3_ContainerCombineEquivalence ==
    (/\ ConsumeDone
     /\ Len(pre["D"]) = Len(pre["L"])
     /\ Len(pre["D"]) = Len(pre["R"])
     /\ DivisorsNonZeroVV(call.destop, call.exp.op, pre["D"], pre["L"], pre["R"]))
    => /\ err = "none"
       /\ mem["D"] = MaterialisedVV(call.destop, call.exp.op,
                                    pre["D"], pre["L"], pre["R"])

\* C5: a compound assignment D OP= L with a container L, or the consumption
\* of a descriptor, whose operand size differs from D's size fails with a
\* size error before the kernel runs: nothing is written and no element is
\* accessed outside its buffer.
C5_SizeMismatchFailsFirst ==
    (/\ pc = "done"
     /\ call.fn \in {"compound", "consume"}
     /\ Len(pre["D"]) # Len(pre["L"]))
    => /\ err \in SizeErrors
       /\ mem = pre
       /\ ~oob

-----------------------------------------------------------------------------
(* Properties of Spec                                                       *)

\* ptr() of object x is a buffer of its own: a live heap buffer or its
\* static array
HasBuffer(o, h, x) ==
    /\ o[x].alive
    /\ \/ o[x].data = SELF
       \/ o[x].data \in BufIds /\ h[o[x].data].st = "live"

CopyAssignStep(x, y) ==
    pc = "run" /\ last'.op = "copy assign" /\ last'.dst = x /\ last'.src = y

CopyStep(x, y) ==
    /\ pc = "run"
    /\ last'.op \in {"copy assign", "copy construct"}
    /\ last'.dst = x
    /\ last'.src = y

\* C7: assigning a container to an allocated container of a different
\* realized shape raises a shape error and leaves the destination's shape,
\* size and elements (and the whole heap) as they were.
C7_AssignMismatchRaises ==
    [][\A x \in Names, y \in Names :
          (/\ CopyAssignStep(x, y)
           /\ HasBuffer(objs, heap, x)
           /\ objs[x].shape # objs[y].shape)
          => /\ err' \in ShapeErrors
             /\ pc' = "run"
             /\ objs' = objs
             /\ heap' = heap]_vars

C7_Witness ==
    /\ last.op = "copy assign"
    /\ last.dst = "a"
    /\ last.src = "b"
    /\ HasBuffer(objs, heap, "a")
    /\ HasBuffer(objs, heap, "b")
    /\ objs["a"].shape = <<1, 2>>
    /\ objs["b"].shape = <<2, 1>>
    /\ Elems(objs, heap, "a") = <<1, 0>>
    /\ err = "SIZE MISMATCH ERROR"

\* C8: assigning an allocated source of any container type to an
\* unallocated dynamically sized destination succeeds: the destination is
\* allocated with the source's shape and holds the source's elements.
C8_AssignAllocatesUnallocated ==
    [][\A x \in DynNames, y \in Names :
          (/\ CopyAssignStep(x, y)
           /\ objs[x].alive
           /\ objs[x].data = NULL
           /\ HasBuffer(objs, heap, y)
           /\ err' # "bad_alloc")
          => /\ err' = "none"
             /\ pc' = "run"
             /\ HasBuffer(objs', heap', x)
             /\ objs'[x].shape = objs[y].shape
             /\ objs'[x].size = objs[y].size
             /\ Elems(objs', heap', x) = Elems(objs, heap, y)]_vars

C10_HeapOwnership ==
    /\ last.ub \notin {"double free", "free of a pointer not from the allocator"}
    /\ \A x \in DynNames, z \in DynNames :
          (x # z /\ HasBuffer(objs, heap, x)) => objs[x].data # objs[z].data
    /\ (\A x \in Names : ~objs[x].alive) => \A p \in BufIds : heap[p].st # "live"


FreeStep(x) == pc = "run" /\ last'.op = "free" /\ last'.dst = x

\* C11: free() on a dynamically sized container that is already free (data
\* is null, size is 0) is a no-op: nothing is released, no undefined
\* behaviour is met, and the container still reports size 0 and a null data
\* pointer.
C11_FreeIdempotent ==
    [][\A x \in DynNames :
          (FreeStep(x) /\ objs[x].alive /\ objs[x].data = NULL)
          => /\ pc' = "run"
             /\ err' = "none"
             /\ heap' = heap
             /\ objs'[x].data = NULL
             /\ objs'[x].size = 0]_vars

MoveStep(x, y) ==
    /\ pc = "run"
    /\ last'.op \in {"move construct", "move assign"}
    /\ last'.dst = x
    /\ last'.src = y

\* what a move of allocated y into x has to establish
Moved(x, y) ==
    /\ pc' = "run"
    /\ err' = "none"
    /\ objs'[x].shape = objs[y].shape
    /\ objs'[x].size = objs[y].size
    /\ Elems(objs', heap', x) = Elems(objs, heap, y)
    /\ objs'[y].data = NULL
    /\ objs'[y].size = 0
    /\ (last'.op = "move assign" /\ HasBuffer(objs, heap, x))
          => heap'[objs[x].data].st = "freed"

\* C12: after move construction or move assignment of a dynamically sized
\* container from an allocated one, the destination has the source's former
\* shape, size and elements, the source is unallocated with size 0, and the
\* buffer the destination held is released exactly once (no undefined
\* behaviour is met).
C12_MoveTransfers ==
    [][\A x \in DynNames, y \in DynNames :
          (MoveStep(x, y) /\ HasBuffer(objs, heap, y)) => Moved(x, y)]_vars

AllocStep(x) == pc = "run" /\ last'.op = "alloc" /\ last'.dst = x

\* the container has had a buffer and released it with free()
Freed(o, h, x) ==
    /\ o[x].alive
    /\ o[x].data = NULL
    /\ o[x].heapData \in BufIds
    /\ h[o[x].heapData].st = "freed"

\* C13: alloc(m) on a dynamically sized container that was allocated,
\* written and freed leaves it allocated with size() = m (the product of the
\* requested extents) and every element zero, unless the allocator fails.
C13_ReallocZeroFilled ==
    [][\A x \in DynNames :
          (AllocStep(x) /\ Freed(objs, heap, x) /\ err' # "bad_alloc")
          => /\ pc' = "run"
             /\ err' = "none"
             /\ HasBuffer(objs', heap', x)
             /\ objs'[x].shape = last'.arg
             /\ objs'[x].size = Product(last'.arg)
             /\ Len(Elems(objs', heap', x)) = Product(last'.arg)
             /\ \A i \in 1..Product(last'.arg) : Elems(objs', heap', x)[i] = 0]_vars

\* a was allocated in buffer 1, freed, and allocated again as 1 x 2
C13_Witness ==
    /\ last.op = "alloc"
    /\ last.dst = "a"
    /\ last.arg = <<1, 2>>
    /\ heap[1].st = "freed"
    /\ objs["a"].data = 2
    /\ objs["a"].size = 2
    /\ Elems(objs, heap, "a") = <<0, 0>>
    /\ ~objs["b"].alive

\* C14: alloc(shape) on a container that is already allocated changes
\* nothing: size, shape, buffer identity, every element and the heap are as
\* before, whatever shape was requested.
C14_AllocOnAllocatedNoOp ==
    [][\A x \in Names :
          (AllocStep(x) /\ HasBuffer(objs, heap, x))
          => /\ pc' = "run"
             /\ err' = "none"
             /\ objs' = objs
             /\ heap' = heap]_vars

\* alloc(<<2, 1>>) on a written 1 x 2 container
C14_Witness ==
    /\ last.op = "alloc"
    /\ last.dst = "a"
    /\ last.arg = <<2, 1>>
    /\ HasBuffer(objs, heap, "a")
    /\ objs["a"].shape = <<1, 2>>
    /\ objs["a"].size = 2
    /\ objs["a"].data = 1
    /\ Elems(objs, heap, "a") = <<1, 0>>

\* C15: when the allocator fails inside alloc, alloc raises bad_alloc and
\* the container is as before the call: unallocated, with the size() and
\* shape() it had.
C15_AllocFailureKeepsState ==
    [][\A x \in DynNames :
          (AllocStep(x) /\ err' = "bad_alloc")
          => /\ pc' = "run"
             /\ objs'[x].data = NULL
             /\ objs'[x].size = objs[x].size
             /\ objs'[x].shape = objs[x].shape]_vars

\* C16: a fixed-shape container always has its buffer: in every reachable
\* state isAlloced() is true and size() is the compile-time element count.
C16_FixedAlwaysAllocated ==
    \A x \in StaticNames :
       objs[x].alive => (isAlloced(objs[x]) /\ objs[x].size = CtSize)

\* C17: in every reachable state of a container, size() is the product of
\* the extents returned by shape().
C17_SizeIsShapeProduct ==
    \A x \in Names : objs[x].alive => objs[x].size = Product(objs[x].shape)

\* C18: in every reachable state of a Matrix, rows() is shape()[0] and
\* cols() is shape()[1]; an unallocated dynamically sized matrix reports
\* rows() = 0 and cols() = 0.
C18_RowsColsMatchShape ==
    \A x \in Names :
       objs[x].alive
       => /\ rows(objs[x]) = objs[x].shape[1]
          /\ cols(objs[x]) = objs[x].shape[2]
          /\ (x \in DynNames /\ ~isAlloced(objs[x]))
                => (rows(objs[x]) = 0 /\ cols(objs[x]) = 0)

\* the operand of element i of a compound assignment on a plain operand
Operand(i) == IF call.operand = "tensor" THEN pre["V"][i] ELSE call.scalar

\* C19: for every element type, D OP= X with a same-shape container X and
\* D OP= s with a scalar s set every D[i] to D_old[i] OP X[i] (OP s), for OP
\* in +, -, *, / (divisors non-zero).
C19_CompoundOnPlainOperand ==
    (/\ pc = "done"
     /\ call.fn = "compound"
     /\ call.operand = "tensor" => shp["D"] = shp["V"]
     /\ \A i \in 1..Len(pre["D"]) :
           ~IsNaN(DestApply(call.destop, pre["D"][i], Operand(i))))
    => /\ err = "none"
       /\ ~oob
       /\ mem["D"] = [i \in 1..Len(pre["D"]) |->
                        DestApply(call.destop, pre["D"][i], Operand(i))]

\* the value of element x of the vector combined with scalar t, in the
\* operand order of the expression
InOrder(op, left, x, t) ==
    CASE op = "Sub" /\ left = "vector" -> RSub(x, t)
      [] op = "Sub" /\ left = "scalar" -> RSub(t, x)
      [] op = "Div" /\ left = "vector" -> RDiv(x, t)
      [] op = "Div" /\ left = "scalar" -> RDiv(t, x)

\* C20: s - v is elementwise s - v[i] and s / v is s / v[i], while v - s
\* and v / s are v[i] - s and v[i] / s (divisors non-zero).
C20_ScalarVectorOrder ==
    (/\ pc = "done"
     /\ call.fn = "vector scalar"
     /\ \A i \in 1..Len(pre["L"]) :
           ~IsNaN(InOrder(call.op, call.left, pre["L"][i], call.scalar)))
    => /\ err = "none"
       /\ mem["C"] = [i \in 1..Len(pre["L"]) |->
                        InOrder(call.op, call.left, pre["L"][i], call.scalar)]
       /\ mem["L"] = pre["L"]

\* C21: for every source tag, every destination tag and every element type
\* a fused kernel is defined: consuming a descriptor whose operand has the
\* destination's shape reaches a kernel.
C21_DispatchTotal ==
    (StopDone /\ shp["D"] = shp["V"]) => err # "ill-formed"

\* C22: a fused kernel makes at most one pass over memory: while
\* D OP= (V SRC s) runs, plain assignment included, each element of D is
\* stored to at most once.
C22_OnePass ==
    (StopDone /\ shp["D"] = shp["V"])
    => \A i \in 1..Len(call.stores) : call.stores[i] <= 1

-----------------------------------------------------------------------------
(* Properties of SpecInt                                                    *)

\* tmp = x SRC s on int
SrcApplyInt(op, x, s) ==
    CASE op = "Add"     -> RAdd(x, s)
      [] op = "Sub"     -> RSub(x, s)
      [] op = "SubLeft" -> RSub(s, x)
      [] op = "Mul"     -> RMul(x, s)
      [] op = "Div"     -> IDiv(x, s)
      [] op = "DivLeft" -> IDiv(s, x)

\* d DST= t on int
DestApplyInt(destop, d, t) ==
    CASE destop = "Add"    -> RAdd(d, t)
      [] destop = "Sub"    -> RSub(d, t)
      [] destop = "Mul"    -> RMul(d, t)
      [] destop = "Div"    -> IDiv(d, t)

MaterialisedInt(destop, op, d, v, s) ==
    [i \in 1..Len(d) |-> DestApplyInt(destop, d[i], SrcApplyInt(op, v[i], s))]

\* C23: on an integer element type (division truncating), with equal shapes
\* and no zero divisor, D OP= (V SRC s) leaves D equal to tmp = V SRC s
\* materialised in int followed by D OP= tmp, for every source tag and every
\* compound destination operator.
C23_IntegerFusion ==
    (/\ StopDone
     /\ elemT = "int"
     /\ call.destop \in CompoundTags
     /\ shp["D"] = shp["V"]
     /\ \A i \in 1..Len(pre["D"]) :
           ~IsNaN(MaterialisedInt(call.destop, call.op, pre["D"], pre["V"],
                                  call.scalar)[i]))
    => /\ err = "none"
       /\ mem["D"] = MaterialisedInt(call.destop, call.op, pre["D"], pre["V"],
                                     call.scalar)

-----------------------------------------------------------------------------
(* Properties of SpecMatrix: element addressing                             *)

\* C24: for a Matrix holding r x c elements, Matrix element access (i, j) and
\* Tensor::idx both address offset i + r * j, and the valid index pairs map
\* one to one onto the offsets 0 .. r * c - 1.
C24_ColumnMajorIndex ==
    \A x \in Names :
       (pc = "run" /\ HasBuffer(objs, heap, x))
       => LET r == objs[x].shape[1]
              c == objs[x].shape[2]
              Pairs == (0..(r - 1)) \X (0..(c - 1))
          IN  /\ \A p \in Pairs :
                    /\ Matrix_idx(objs[x], p[1], p[2]) = p[1] + r * p[2]
                    /\ idx(objs[x], p) = p[1] + r * p[2]
              /\ \A p, q \in Pairs :
                    Matrix_idx(objs[x], p[1], p[2]) = Matrix_idx(objs[x], q[1], q[2])
                    => p = q
              /\ {Matrix_idx(objs[x], p[1], p[2]) : p \in Pairs} = 0..(r * c - 1)

-----------------------------------------------------------------------------
(* Properties of SpecSV                                                     *)

SVDone == pc = "done" /\ call.fn = "SVOP"

\* the outcome of the generic kernel on the operands the statement had
GenericOutcome ==
    VectorConsumeSVOP("generic", call.destop, pre, "D",
                      SVOP("V", call.scalar, call.op))

\* C25: for every source tag and destination tag, the kernel specialised for
\* double or float leaves D (of V's size) with the values the generic kernel
\* computes from the same D, V and s, and writes and reads the same indices.
C25_SpecialisedAgree ==
    (/\ SVDone
     /\ elemT \in {"double", "float"}
     /\ Len(pre["D"]) = Len(pre["V"]))
    => /\ err = GenericOutcome.err
       /\ mem["D"] = GenericOutcome.m["D"]
       /\ call.written = GenericOutcome.written
       /\ call.read = GenericOutcome.read

-----------------------------------------------------------------------------
(* Properties of SpecLazy                                                   *)

\* C26: building a descriptor changes no container and computes nothing: it
\* records the operand by name and the scalar's value.  When the descriptor
\* is consumed, after the caller has stored to the operand and to its scalar
\* variable or not, D is computed from the operand's elements as they are
\* at consumption and from the scalar as it was at the build (divisors
\* non-zero), and the operand stays as it is.
C26_DescriptorIsLazy ==
    [][/\ (pc = "ready" /\ pc' = "built")
          => /\ mem' = mem
             /\ shp' = shp
             /\ call'.exp.vec = "V"
             /\ call'.exp.scalar = mem["s"][1]
       /\ (/\ pc \in {"built", "written"}
           /\ pc' = "done"
           /\ err' = "none"
           /\ DivisorsNonZero(call'.destop, call.exp.op, mem["D"], mem["V"],
                              call.built["s"][1]))
          => /\ mem'["D"] = Materialised(call'.destop, call.exp.op, mem["D"],
                                         mem["V"], call.built["s"][1])
             /\ mem'["V"] = mem["V"]
             /\ mem'["s"] = mem["s"]]_vars

C26_Witness ==
    /\ pc = "done"
    /\ call.fn = "consume"
    /\ err = "none"
    /\ elemT = "double"
    /\ call.destop = "Assign"
    /\ call.exp.op = "Add"
    /\ pre["V"] # call.built["V"]
    /\ pre["s"] # call.built["s"]
    /\ mem["D"] = Materialised("Assign", "Add", pre["D"], pre["V"],
                               call.built["s"][1])
    /\ mem["D"] # Materialised("Assign", "Add", pre["D"], call.built["V"],
                               call.built["s"][1])
    /\ mem["D"] # Materialised("Assign", "Add", pre["D"], pre["V"], pre["s"][1])

-----------------------------------------------------------------------------
(* Properties of SpecAlias                                                  *)

\* D DST= (x SRC y) elementwise from the values the containers had before
Expected ==
    IF call.fn = "self STOP"
    THEN Materialised(call.destop, call.op, pre["D"], pre["D"], call.scalar)
    ELSE MaterialisedVV(call.destop, call.exp.op, pre["D"],
                        pre[call.exp.lhs], pre[call.exp.rhs])

\* C27: when the destination is also an operand of the descriptor it
\* consumes, a statement that runs to its end with no error leaves D as if
\* the descriptor had been evaluated into a temporary from D's original
\* values and the temporary then combined with D (no NaN in that result).
C27_AliasedDestination ==
    (/\ pc = "done"
     /\ call.fn \in {"self STOP", "self VVOP"}
     /\ err = "none"
     /\ \A i \in 1..Len(Expected) : ~IsNaN(Expected[i]))
    => mem["D"] = Expected

-----------------------------------------------------------------------------
(* Properties of SpecFind                                                   *)

\* C28: on a sorted vector find never reads outside the vector, and when it
\* returns it gives an index holding the query if the query is present and
\* the not-found value otherwise, the empty vector and a query below every
\* element included.
C28_FindCorrect ==
    /\ ~oob
    /\ (pc = "done")
       => IF \E i \in 1..Len(mem["v"]) : mem["v"][i] = call.query
          THEN call.ret < Len(mem["v"]) /\ mem["v"][call.ret + 1] = call.query
          ELSE call.ret = NotFound

-----------------------------------------------------------------------------
(* Properties of SpecEdge                                                   *)

\* neither edge is less than the other
Incomparable(i, j) == ~call.lt[i, j] /\ ~call.lt[j, i]

\* C29: operator< on Edge is a strict weak ordering (irreflexive,
\* asymmetric, transitive, with a transitive incomparability), and two edges
\* are equivalent under it exactly when they have the same (u, v).
C29_EdgeStrictWeakOrder ==
    (pc = "done" /\ call.fn = "compare")
    => \A i, j, k \in 1..3 :
          /\ ~call.lt[i, i]
          /\ call.lt[i, j] => ~call.lt[j, i]
          /\ (call.lt[i, j] /\ call.lt[j, k]) => call.lt[i, k]
          /\ (Incomparable(i, j) /\ Incomparable(j, k)) => Incomparable(i, k)
          /\ Incomparable(i, j) <=> (mem[i].u = mem[j].u /\ mem[i].v = mem[j].v)

-----------------------------------------------------------------------------
(* Properties of SpecIO                                                     *)

SameMatrix(a, b) ==
    /\ rows(a) = rows(b)
    /\ cols(a) = cols(b)
    /\ \A i \in 0..(rows(b) - 1), j \in 0..(cols(b) - 1) :
          At(a, i, j) = At(b, i, j)

\* C30: when writeMatrix has written a matrix to a file it could open and
\* readMatrix then reads that file, both complete and the matrix returned
\* has the rows(), the cols() and the element at every (i, j) of the matrix
\* written; and readMatrix leaves the contents of the file it opened as
\* they were.
C30_WriteReadRoundTrip ==
    (pc = "read" /\ call.opened)
    => /\ call.wrote # "not written"
          => /\ call.wrote = "none"
             /\ err = "none"
             /\ SameMatrix(call.result, mem.mat)
       /\ call.before.exists => mem.file = call.before
=============================================================================
